---- MODULE Spec2Model ----
(***************************************************************************)
(* Model of the predictive-maintenance scheduling pipeline                 *)
(* (challenge-3-new/maintenance_scheduler.py, services/scheduler_agent.py, *)
(* services/cosmos_db_service.py) and of the parts-ordering pipeline       *)
(* (challenge-3/parts_ordering.py) of magnuseliass1/factory-hack.           *)
(*                                                                         *)
(* Every pipeline run is one operating-system process (one call of main);  *)
(* runs share nothing but the Cosmos DB containers, so the steps of two    *)
(* runs interleave at the granularity of one store request or one local    *)
(* computation.                                                            *)
(***************************************************************************)
EXTENDS Integers, Sequences, FiniteSets, TLC

VARIABLES
    workOrders,     \* container "WorkOrders", partition key = status
    chatHistories,  \* container "ChatHistories", partition key = entityId
    schedules,      \* container "MaintenanceSchedules", partition key = id
    partsOrders,    \* container "PartsOrders", partition key = id
    run,            \* run[p]: the locals of the run process p is executing
    started,        \* number of runs started so far
    callIn,         \* argument of the construction SpecParse applies
    callOut         \* its result; NotCalled before the call

vars == <<workOrders, chatHistories, schedules, partsOrders, run, started,
          callIn, callOut>>

stores == <<workOrders, chatHistories, schedules, partsOrders>>

-----------------------------------------------------------------------------
(* Bounds of the model                                                     *)

\* total number of pipeline runs started in one behaviour
MaxRuns == 2

\* the processes that execute runs concurrently
Procs == {1, 2}

-----------------------------------------------------------------------------
(* Program constants                                                       *)

\* _save_thread_history stops collecting after this many messages
MaxSavedMessages == 10

Workflows == {"schedule", "order"}

\* work-order ids a run can be asked for; "wo-9" is in no store
WoArgs == {"wo-1", "wo-2", "wo-9"}

RecommendedActions == {"IMMEDIATE", "URGENT", "SCHEDULED", "MONITOR"}

-----------------------------------------------------------------------------
(* Messages and transcripts                                                *)

Msg(role, kind, src, n) ==
    [role |-> role, content |-> [kind |-> kind, src |-> src, n |-> n]]

\* a transcript left in the store by earlier runs for entity key k
OldTranscript(k, len) ==
    [i \in 1..len |->
        Msg(IF i % 2 = 1 THEN "user" ELSE "assistant", "old", k, i)]

Reverse(s) == [i \in 1..Len(s) |-> s[Len(s) + 1 - i]]

Min(a, b) == IF a < b THEN a ELSE b

Range(s) == {s[i] : i \in DOMAIN s}

-----------------------------------------------------------------------------
(* Cosmos DB container operations, as the service uses them.  A container  *)
(* is a set of items; an item is identified by (id, partition key).        *)

\* partition key of an item of each container
PkWorkOrder(item) == item.status
PkChat(item) == item.entityId

\* faulty variant of UpsertChat: inserts the item and leaves an item of the
\* same id and partition key in place
UpsertChatKeepingOld(container, item) == container \cup {item}

\* faulty variant of UpsertChat: puts the entries of the item it replaces in
\* front of the new ones
UpsertChatMerging(container, item) ==
    LET old == {c \in container : c.id = item.id /\ PkChat(c) = PkChat(item)}
    IN  (container \ old) \cup
        {[item EXCEPT !.historyJson = c.historyJson \o @] : c \in old} \cup
        (IF old = {} THEN {item} ELSE {})

\* container.upsert_item(body=item) on ChatHistories
UpsertChat(container, item) ==
    {c \in container : ~(c.id = item.id /\ PkChat(c) = PkChat(item))}
        \cup {item}

\* container.upsert_item(body=item) on WorkOrders
UpsertWorkOrder(container, item) ==
    {w \in container : ~(w.id = item.id /\ PkWorkOrder(w) = PkWorkOrder(item))}
        \cup {item}

\* container.read_item(item=key, partition_key=key) on ChatHistories
ReadChat(container, key) ==
    {c \in container : c.id = key /\ PkChat(c) = key}

\* faulty variant of QueryWorkOrder: the query without its WHERE clause
QueryWorkOrderAnyId(container, id) == container

\* SELECT * FROM c WHERE c.id = @id, cross-partition
QueryWorkOrder(container, id) == {w \in container : w.id = id}

-----------------------------------------------------------------------------
(* Model responses.  A response text either holds no JSON at all, or JSON  *)
(* that does not parse, or a JSON object; an object is a function from the *)
(* keys it has to their values.  A probability p is held as 1000 * p.      *)

\* ISO date strings: a body and what follows it ("Z", "+00:00" or nothing)
DateZ == [body |-> "2026-01-03T22:00:00", suffix |-> "Z"]
DateOffset == [body |-> "2026-01-04T06:00:00", suffix |-> "+00:00"]
DateBad == [body |-> "tomorrow", suffix |-> ""]

IsoBodies == {"2026-01-03T22:00:00", "2026-01-04T06:00:00"}

\* s.replace('Z', '+00:00')
ReplaceZ(s) == IF s.suffix = "Z" THEN [s EXCEPT !.suffix = "+00:00"] ELSE s

\* datetime.fromisoformat(s) raises ValueError unless s is ISO formatted
FromIsoformatRaises(s) == ~(s.body \in IsoBodies /\ s.suffix \in {"", "+00:00"})

\* datetime.fromisoformat(s): the instant and whether it carries an offset
FromIsoformat(s) == [at |-> s.body, aware |-> s.suffix = "+00:00"]

Without(d, k) == [x \in (DOMAIN d) \ {k} |-> d[x]]

GoodWindow ==
    [id |-> "mw-1", startTime |-> DateZ, endTime |-> DateOffset,
     productionImpact |-> "Low", isAvailable |-> TRUE]

GoodData ==
    [scheduledDate |-> DateZ, maintenanceWindow |-> GoodWindow,
     riskScore |-> 75, predictedFailureProbability |-> 650,
     recommendedAction |-> "URGENT", reasoning |-> "text"]

GoodItem ==
    [partNumber |-> "P-1", partName |-> "Seal", quantity |-> 2,
     unitCost |-> 10, totalCost |-> 20]

GoodOrderData ==
    [supplierId |-> "supplier-001", supplierName |-> "Quick Parts Ltd.",
     orderItems |-> <<GoodItem>>, totalCost |-> 20,
     expectedDeliveryDate |-> DateZ, reasoning |-> "text"]

NoData == [x \in {} |-> 0]

\* what a response text is to extract_json: without any JSON, or with a
\* stretch of text that extract_json takes for JSON
ResponseTexts == {"none", "json"}

\* what the extracted stretch is to json.loads when it is not a JSON object
Malformed == [malformed |-> TRUE]

\* what the reasoning service gives a scheduling run to parse
ScheduleData == {Malformed, GoodData, Without(GoodData, "riskScore")}

\* what the reasoning service gives a parts-ordering run to parse
OrderData == {Malformed, GoodOrderData, Without(GoodOrderData, "supplierId")}

-----------------------------------------------------------------------------
(* Results of a call: a value, or the exception it raised                  *)

Returned(v) == [ok |-> TRUE, error |-> "", field |-> "", value |-> v]

Raised(error, field) == [ok |-> FALSE, error |-> error, field |-> field]

\* no construction is under way
NoCall == [wf |-> "", data |-> NoData]

NotCalled == Raised("", "")

\* the first key of keys (a sequence) that d lacks; 0 when it has them all
FirstMissing(d, keys) ==
    LET miss == {i \in 1..Len(keys) : keys[i] \notin DOMAIN d}
    IN  IF miss = {} THEN 0 ELSE CHOOSE i \in miss : \A j \in miss : i <= j

\* the keys MaintenanceWindow(...) reads from data['maintenanceWindow'],
\* in the order the constructor call evaluates them
WindowKeys == <<"id", "startTime", "endTime", "productionImpact", "isAvailable">>

\* MaintenanceWindow(id=w['id'], start_time=fromisoformat(w['startTime']...), ...)
BuildWindow(w) ==
    IF "id" \notin DOMAIN w THEN Raised("KeyError", "id")
    ELSE IF "startTime" \notin DOMAIN w THEN Raised("KeyError", "startTime")
    ELSE IF FromIsoformatRaises(ReplaceZ(w["startTime"])) THEN Raised("ValueError", "")
    ELSE IF "endTime" \notin DOMAIN w THEN Raised("KeyError", "endTime")
    ELSE IF FromIsoformatRaises(ReplaceZ(w["endTime"])) THEN Raised("ValueError", "")
    ELSE IF "productionImpact" \notin DOMAIN w THEN Raised("KeyError", "productionImpact")
    ELSE IF "isAvailable" \notin DOMAIN w THEN Raised("KeyError", "isAvailable")
    ELSE Returned([id |-> w["id"],
                   start_time |-> FromIsoformat(ReplaceZ(w["startTime"])),
                   end_time |-> FromIsoformat(ReplaceZ(w["endTime"])),
                   production_impact |-> w["productionImpact"],
                   is_available |-> w["isAvailable"]])

\* faulty variant of BuildSchedule: reads the risk score with a default,
\* data.get('riskScore', 0)
BuildScheduleDefaulting(data, work_order, sid) ==
    IF "scheduledDate" \notin DOMAIN data THEN Raised("KeyError", "scheduledDate")
    ELSE IF FromIsoformatRaises(ReplaceZ(data["scheduledDate"])) THEN Raised("ValueError", "")
    ELSE IF "maintenanceWindow" \notin DOMAIN data THEN Raised("KeyError", "maintenanceWindow")
    ELSE IF ~BuildWindow(data["maintenanceWindow"]).ok THEN BuildWindow(data["maintenanceWindow"])
    ELSE IF "predictedFailureProbability" \notin DOMAIN data
         THEN Raised("KeyError", "predictedFailureProbability")
    ELSE IF "recommendedAction" \notin DOMAIN data THEN Raised("KeyError", "recommendedAction")
    ELSE IF "reasoning" \notin DOMAIN data THEN Raised("KeyError", "reasoning")
    ELSE Returned([id |-> sid,
                   work_order_id |-> work_order.id,
                   machine_id |-> work_order.machineId,
                   scheduled_date |-> FromIsoformat(ReplaceZ(data["scheduledDate"])),
                   maintenance_window |-> BuildWindow(data["maintenanceWindow"]).value,
                   risk_score |-> IF "riskScore" \in DOMAIN data
                                  THEN data["riskScore"] ELSE 0,
                   predicted_failure_probability |-> data["predictedFailureProbability"],
                   recommended_action |-> data["recommendedAction"],
                   reasoning |-> data["reasoning"]])

\* return MaintenanceSchedule(id=..., scheduled_date=..., ...): the keyword
\* arguments are evaluated top to bottom and the first failing one raises
BuildSchedule(data, work_order, sid) ==
    IF "scheduledDate" \notin DOMAIN data THEN Raised("KeyError", "scheduledDate")
    ELSE IF FromIsoformatRaises(ReplaceZ(data["scheduledDate"])) THEN Raised("ValueError", "")
    ELSE IF "maintenanceWindow" \notin DOMAIN data THEN Raised("KeyError", "maintenanceWindow")
    ELSE IF ~BuildWindow(data["maintenanceWindow"]).ok THEN BuildWindow(data["maintenanceWindow"])
    ELSE IF "riskScore" \notin DOMAIN data THEN Raised("KeyError", "riskScore")
    ELSE IF "predictedFailureProbability" \notin DOMAIN data
         THEN Raised("KeyError", "predictedFailureProbability")
    ELSE IF "recommendedAction" \notin DOMAIN data THEN Raised("KeyError", "recommendedAction")
    ELSE IF "reasoning" \notin DOMAIN data THEN Raised("KeyError", "reasoning")
    ELSE Returned([id |-> sid,
                   work_order_id |-> work_order.id,
                   machine_id |-> work_order.machineId,
                   scheduled_date |-> FromIsoformat(ReplaceZ(data["scheduledDate"])),
                   maintenance_window |-> BuildWindow(data["maintenanceWindow"]).value,
                   risk_score |-> data["riskScore"],
                   predicted_failure_probability |-> data["predictedFailureProbability"],
                   recommended_action |-> data["recommendedAction"],
                   reasoning |-> data["reasoning"]])

\* the keys OrderItem(...) reads from each element of data['orderItems']
ItemKeys == <<"partNumber", "partName", "quantity", "unitCost", "totalCost">>

\* [OrderItem(part_number=item['partNumber'], ...) for item in items]
BuildItems(items) ==
    LET bad == {i \in 1..Len(items) : FirstMissing(items[i], ItemKeys) # 0}
    IN  IF bad = {}
        THEN Returned([i \in 1..Len(items) |->
                 [part_number |-> items[i]["partNumber"],
                  part_name |-> items[i]["partName"],
                  quantity |-> items[i]["quantity"],
                  unit_cost |-> items[i]["unitCost"],
                  total_cost |-> items[i]["totalCost"]]])
        ELSE LET i == CHOOSE b \in bad : \A c \in bad : b <= c
             IN  Raised("KeyError", ItemKeys[FirstMissing(items[i], ItemKeys)])

\* return PartsOrder(id=..., order_items=[...], supplier_id=..., ...)
BuildOrder(data, work_order, oid) ==
    IF "orderItems" \notin DOMAIN data THEN Raised("KeyError", "orderItems")
    ELSE IF ~BuildItems(data["orderItems"]).ok THEN BuildItems(data["orderItems"])
    ELSE IF "supplierId" \notin DOMAIN data THEN Raised("KeyError", "supplierId")
    ELSE IF "supplierName" \notin DOMAIN data THEN Raised("KeyError", "supplierName")
    ELSE IF "totalCost" \notin DOMAIN data THEN Raised("KeyError", "totalCost")
    ELSE IF "expectedDeliveryDate" \notin DOMAIN data
         THEN Raised("KeyError", "expectedDeliveryDate")
    ELSE IF FromIsoformatRaises(ReplaceZ(data["expectedDeliveryDate"]))
         THEN Raised("ValueError", "")
    ELSE Returned([id |-> oid,
                   work_order_id |-> work_order.id,
                   order_items |-> BuildItems(data["orderItems"]).value,
                   supplier_id |-> data["supplierId"],
                   supplier_name |-> data["supplierName"],
                   total_cost |-> data["totalCost"],
                   expected_delivery_date |->
                       FromIsoformat(ReplaceZ(data["expectedDeliveryDate"])),
                   order_status |-> "Pending"])

\* extract_json(response_text): raises when the text holds no JSON
ExtractJson(text) ==
    IF text = "none" THEN Raised("ExtractionError", "")
    ELSE Returned(text)

\* json.loads(json_response): raises when the extracted text does not parse
JsonLoads(json) ==
    IF json = Malformed THEN Raised("JSONDecodeError", "")
    ELSE Returned(json)

-----------------------------------------------------------------------------
(* The locals of a run                                                     *)

NoWorkOrder == [id |-> "", machineId |-> "", status |-> "", requiredParts |-> <<>>]

NoTranscript == [present |-> FALSE, purpose |-> "", msgs |-> <<>>]

NoOut == [id |-> 0]

\* faults: the failures the run has absorbed since it built its context
\* ("load", "restore", "save"); failedAt: the stage a failed run was in
IdleRun ==
    [pc |-> "idle", stage |-> "Idle", wf |-> "", arg |-> "", no |-> 0,
     wo |-> NoWorkOrder,
     loaded |-> NoTranscript, thread |-> <<>>,
     text |-> "", faults |-> {}, failedAt |-> "",
     out |-> NoOut,
     newStatus |-> "", oldStatus |-> ""]

NewRun(wf, arg, n) ==
    [IdleRun EXCEPT !.pc = "start", !.stage = "Gathering",
                    !.wf = wf, !.arg = arg, !.no = n]

\* faulty variant of Failed: the run starts over instead of ending
FailedRetrying(r) ==
    [IdleRun EXCEPT !.pc = "start", !.stage = "Gathering", !.wf = r.wf,
                    !.arg = r.arg, !.no = r.no]

\* the exception reaches main's handler (or ends the process): the run is
\* over, and its locals are gone
Failed(r) ==
    [IdleRun EXCEPT !.pc = "failed", !.stage = "Failed", !.wf = r.wf,
                    !.failedAt = r.stage]

\* main returns normally: the run is over, and its locals are gone
Done(r) == [IdleRun EXCEPT !.pc = "done", !.stage = r.stage]

\* the id the transcript of a run is stored under: work_order.machine_id in
\* predict_schedule, work_order.id in generate_order
ChatKey(r) == IF r.wf = "schedule" THEN r.wo.machineId ELSE r.wo.id

EntityType(wf) == IF wf = "schedule" THEN "machine" ELSE "workorder"

Purpose(wf) == IF wf = "schedule" THEN "predictive_maintenance" ELSE "parts_ordering"

\* the item save_machine_chat_history / save_work_order_chat_history writes
ChatItem(r, history) ==
    [id |-> ChatKey(r), entityId |-> ChatKey(r), entityType |-> EntityType(r.wf),
     historyJson |-> history, purpose |-> Purpose(r.wf)]

\* thread.list_messages(): the messages of the thread, newest first (the
\* order _save_thread_history relies on when it reverses what it collected)
ListMessages(thread) == Reverse(thread)

\* faulty variant of CollectMessages: without messages.reverse()
CollectMessagesUnreversed(thread) ==
    LET listed == ListMessages(thread)
    IN  SubSeq(listed, 1, Min(Len(listed), MaxSavedMessages))

\* the loop of _save_thread_history: collect until 10 messages, then reverse
CollectMessages(thread) ==
    LET listed == ListMessages(thread)
    IN  Reverse(SubSeq(listed, 1, Min(Len(listed), MaxSavedMessages)))

\* faulty variant of AllPartsAvailable: some part is flagged available
SomePartAvailable(wo) == \E i \in DOMAIN wo.requiredParts : wo.requiredParts[i]

\* all parts flagged available: parts_needing_order is empty
AllPartsAvailable(wo) == \A i \in DOMAIN wo.requiredParts : wo.requiredParts[i]

-----------------------------------------------------------------------------
(* Initial state: two work orders, and the transcripts earlier runs left   *)

\* wo-1 is a fault of machine M-1 and lacks a part; wo-2 is a fault of the
\* machine whose id is the string "wo-1", and has all its parts
WorkOrder1 ==
    [id |-> "wo-1", machineId |-> "M-1", status |-> "Created",
     requiredParts |-> <<FALSE, TRUE>>]

WorkOrder2 ==
    [id |-> "wo-2", machineId |-> "wo-1", status |-> "Created",
     requiredParts |-> <<TRUE>>]

InitWorkOrders == {WorkOrder1, WorkOrder2}

\* earlier scheduling runs for machine M-1 left a full transcript; no run
\* has yet stored one under the key "wo-1"
InitChat ==
    {[id |-> "M-1", entityId |-> "M-1", entityType |-> "machine",
      historyJson |-> OldTranscript("M-1", MaxSavedMessages),
      purpose |-> "predictive_maintenance"]}

Init ==
    /\ workOrders = InitWorkOrders
    /\ chatHistories = InitChat
    /\ schedules = {}
    /\ partsOrders = {}
    /\ run = [p \in Procs |-> IdleRun]
    /\ started = 0
    /\ callIn = NoCall
    /\ callOut = NotCalled

-----------------------------------------------------------------------------
(* Steps of a run                                                          *)

Set(p, r) == run' = [run EXCEPT ![p] = r]

pure == <<callIn, callOut>>

rest == <<started, callIn, callOut>>

\* python maintenance_scheduler.py <arg>  /  python parts_ordering.py <arg>
Start(p) ==
    /\ run[p].pc \in {"idle", "done", "failed"}
    /\ \A q \in Procs : q < p => run[q].pc \notin {"idle", "done", "failed"}
    /\ started < MaxRuns
    /\ \E wf \in Workflows, arg \in WoArgs : Set(p, NewRun(wf, arg, started + 1))
    /\ started' = started + 1
    /\ UNCHANGED <<stores, pure>>

\* work_order = await cosmos_service.get_work_order(work_order_id)
GetWorkOrder(p) ==
    /\ run[p].pc = "start"
    /\ \/ \E item \in QueryWorkOrder(workOrders, run[p].arg) :
              Set(p, [run[p] EXCEPT !.pc = "gotWO", !.wo = item])
       \/ /\ QueryWorkOrder(workOrders, run[p].arg) = {}
          /\ Set(p, Failed(run[p]))
       \/ Set(p, Failed(run[p]))
    /\ UNCHANGED <<stores, rest>>

\* history = await cosmos_service.get_maintenance_history(machine_id):
\* the records of the machine, or [] when the read fails
GetMaintenanceHistory(p) ==
    /\ run[p].pc = "gotWO" /\ run[p].wf = "schedule"
    /\ Set(p, [run[p] EXCEPT !.pc = "gotHistory"])
    /\ UNCHANGED <<stores, rest>>

\* windows = await cosmos_service.get_available_maintenance_windows(14):
\* the stored windows, or generated ones when there is none or the read fails
GetMaintenanceWindows(p) ==
    /\ run[p].pc = "gotHistory"
    /\ Set(p, [run[p] EXCEPT !.pc = "gathered"])
    /\ UNCHANGED <<stores, rest>>

\* inventory = await cosmos_service.get_inventory_items(part_numbers), then
\* the test on parts_needing_order
CheckInventory(p) ==
    /\ run[p].pc = "gotWO" /\ run[p].wf = "order"
    /\ IF AllPartsAvailable(run[p].wo)
       THEN Set(p, [run[p] EXCEPT !.pc = "update", !.newStatus = "Ready"])
       ELSE Set(p, [run[p] EXCEPT !.pc = "gotInventory"])
    /\ UNCHANGED <<stores, rest>>

\* suppliers = await cosmos_service.get_suppliers_for_parts(...): never
\* empty, two fixed suppliers stand in when none matches
GetSuppliers(p) ==
    /\ run[p].pc = "gotInventory"
    /\ Set(p, [run[p] EXCEPT !.pc = "gathered"])
    /\ UNCHANGED <<stores, rest>>

\* context = self._build_context(work_order, history, windows); for some
\* histories the scheduler's _build_context raises (BuildContextLines)
BuildContext(p) ==
    /\ run[p].pc = "gathered"
    /\ \/ Set(p, [run[p] EXCEPT !.pc = "contextBuilt", !.stage = "ContextBuilt"])
       \/ /\ run[p].wf = "schedule"
          /\ Set(p, Failed(run[p]))
    /\ UNCHANGED <<stores, rest>>

\* chat_history_json = await cosmos_service.get_machine_chat_history(key)
\* (get_work_order_chat_history in generate_order): the stored JSON, or None
\* when there is no record or the read fails
LoadChatHistory(p) ==
    /\ run[p].pc = "contextBuilt"
    /\ LET r == [run[p] EXCEPT !.pc = "loaded"]
       IN  \/ \E item \in ReadChat(chatHistories, ChatKey(r)) :
                  Set(p, [r EXCEPT !.loaded = [present |-> TRUE,
                                               purpose |-> item.purpose,
                                               msgs |-> item.historyJson]])
           \/ /\ ReadChat(chatHistories, ChatKey(r)) = {}
              /\ Set(p, r)
           \/ Set(p, [r EXCEPT !.faults = @ \cup {"load"}])
    /\ UNCHANGED <<stores, rest>>

\* positions at which thread.add_message may fail during the restore
RestoreFailPoints(n) == {n} \cap (1..n)

\* thread = agent.get_new_thread(), then the restore loop, inside try/except
RestoreHistory(p) ==
    /\ run[p].pc = "loaded"
    /\ LET r == [run[p] EXCEPT !.pc = "restored"]
           msgs == r.loaded.msgs
       IN  \/ Set(p, [r EXCEPT !.thread = msgs])
           \/ \E k \in RestoreFailPoints(Len(msgs)) :
                  Set(p, [r EXCEPT !.thread = SubSeq(msgs, 1, k - 1),
                                   !.faults = @ \cup {"restore"}])
    /\ UNCHANGED <<stores, rest>>

\* result = await agent.run(context, thread=thread): the thread gains the
\* context message and the response
RunAgent(p) ==
    /\ run[p].pc = "restored"
    /\ \/    Set(p, [run[p] EXCEPT
                  !.pc = "invoked", !.stage = "Invoked",
                  !.thread = @ \o <<Msg("user", "ctx", run[p].wo.id, run[p].no),
                                    Msg("assistant", "resp", run[p].wo.id, run[p].no)>>])
       \/ Set(p, Failed(run[p]))
    /\ UNCHANGED <<stores, rest>>

\* faulty variant of SaveThreadHistory: the save is put off until the
\* response has been parsed
SaveThreadHistoryPutOff(p) ==
    /\ run[p].pc = "invoked"
    /\ Set(p, [run[p] EXCEPT !.pc = "saved", !.loaded = NoTranscript,
                             !.thread = <<>>])
    /\ UNCHANGED <<stores, rest>>

\* faulty variant of SaveThreadHistory: without the try/except around the
\* save, a failing save ends the run
SaveThreadHistoryAborting(p) ==
    /\ run[p].pc = "invoked"
    /\ LET r == [run[p] EXCEPT !.pc = "saved", !.loaded = NoTranscript,
                               !.thread = <<>>]
       IN  \/ /\ chatHistories' =
                     UpsertChat(chatHistories,
                                ChatItem(run[p], CollectMessages(run[p].thread)))
              /\ Set(p, r)
           \/ /\ Set(p, Failed(run[p]))
              /\ UNCHANGED chatHistories
    /\ UNCHANGED <<workOrders, schedules, partsOrders, rest>>

\* await self._save_thread_history(key, thread), inside try/except; the
\* "async with" block ends here, and the agent and its thread with it
SaveThreadHistory(p) ==
    /\ run[p].pc = "invoked"
    /\ LET r == [run[p] EXCEPT !.pc = "saved", !.loaded = NoTranscript,
                               !.thread = <<>>]
       IN  \/ /\ chatHistories' =
                     UpsertChat(chatHistories,
                                ChatItem(run[p], CollectMessages(run[p].thread)))
              /\ Set(p, r)
           \/ /\ Set(p, [r EXCEPT !.faults = @ \cup {"save"}])
              /\ UNCHANGED chatHistories
    /\ UNCHANGED <<workOrders, schedules, partsOrders, rest>>

\* json_response = extract_json(response_text).  The text is opaque to the
\* run until here, where it is drawn.
ExtractResponse(p) ==
    /\ run[p].pc = "saved"
    /\ \E text \in ResponseTexts :
         IF ExtractJson(text).ok
         THEN Set(p, [run[p] EXCEPT !.pc = "extracted", !.stage = "Extracted",
                                    !.text = ExtractJson(text).value,
                                    !.faults = {}])
         ELSE Set(p, Failed(run[p]))
    /\ UNCHANGED <<stores, rest>>

\* the ids a new record of run r can get: sched-<utcnow().timestamp()> or
\* PO-<uuid4>; the runs of Spec get ids of their own (SpecSave is about
\* schedules made at one reading of the clock)
NewIds(r) == {r.no}

\* MaintenanceSchedule(...) in predict_schedule, PartsOrder(...) in generate_order
BuildOutput(wf, data, work_order, id) ==
    IF wf = "schedule" THEN BuildSchedule(data, work_order, id)
    ELSE BuildOrder(data, work_order, id)

DataOf(wf) == IF wf = "schedule" THEN ScheduleData ELSE OrderData

\* data = json.loads(json_response); return MaintenanceSchedule(...)
\* (PartsOrder(...) in generate_order).  What the extracted text holds is
\* drawn here, where it is first read.
ParseResponse(p) ==
    /\ run[p].pc = "extracted"
    /\ \E json \in DataOf(run[p].wf), id \in NewIds(run[p]) :
         LET data == JsonLoads(json)
             built == BuildOutput(run[p].wf, data.value, run[p].wo, id)
         IN  IF ~data.ok THEN Set(p, Failed(run[p]))
             ELSE IF ~built.ok THEN Set(p, Failed(run[p]))
             ELSE Set(p, [run[p] EXCEPT !.pc = "validated", !.stage = "Validated",
                                        !.out = built.value])
    /\ UNCHANGED <<stores, rest>>

\* faulty variant of CreateItem: an upsert, which replaces the item of this id
CreateItemOverwriting(container, item) ==
    Returned({x \in container : x.id # item.id} \cup {item})

\* container.create_item(body=item): an item with this id must not exist
CreateItem(container, item) ==
    IF \E x \in container : x.id = item.id THEN Raised("CosmosResourceExistsError", "")
    ELSE Returned(container \cup {item})

\* faulty variant of SaveSchedule: the run goes on to the status update
\* without having saved its schedule
SaveScheduleSkipped(p) ==
    /\ run[p].pc = "validated" /\ run[p].wf = "schedule"
    /\ Set(p, [run[p] EXCEPT !.pc = "update", !.stage = "Persisted",
                             !.newStatus = "Scheduled", !.out = NoOut,
                             !.text = ""])
    /\ UNCHANGED <<stores, rest>>

\* await cosmos_service.save_maintenance_schedule(schedule)
SaveSchedule(p) ==
    /\ run[p].pc = "validated" /\ run[p].wf = "schedule"
    /\ \/ /\ CreateItem(schedules, run[p].out).ok
          /\ schedules' = CreateItem(schedules, run[p].out).value
          /\ Set(p, [run[p] EXCEPT !.pc = "update", !.stage = "Persisted",
                                   !.newStatus = "Scheduled", !.out = NoOut,
                                   !.text = ""])
       \/ /\ Set(p, Failed(run[p]))
          /\ UNCHANGED schedules
    /\ UNCHANGED <<workOrders, chatHistories, partsOrders, rest>>

\* await cosmos_service.save_parts_order(order)
SavePartsOrder(p) ==
    /\ run[p].pc = "validated" /\ run[p].wf = "order"
    /\ \/ /\ CreateItem(partsOrders, run[p].out).ok
          /\ partsOrders' = CreateItem(partsOrders, run[p].out).value
          /\ Set(p, [run[p] EXCEPT !.pc = "update", !.stage = "Persisted",
                                   !.newStatus = "PartsOrdered", !.out = NoOut,
                                   !.text = ""])
       \/ /\ Set(p, Failed(run[p]))
          /\ UNCHANGED partsOrders
    /\ UNCHANGED <<workOrders, chatHistories, schedules, rest>>

\* update_work_order_status: work_order = await self.get_work_order(id)
UpdateRead(p) ==
    /\ run[p].pc = "update"
    /\ \/ \E item \in QueryWorkOrder(workOrders, run[p].wo.id) :
              Set(p, [run[p] EXCEPT !.pc = "updateRead", !.wo = item,
                                    !.oldStatus = item.status])
       \/ /\ QueryWorkOrder(workOrders, run[p].wo.id) = {}
          /\ Set(p, Failed(run[p]))
       \/ Set(p, Failed(run[p]))
    /\ UNCHANGED <<stores, rest>>

\* faulty variant of UpdateDelete: a delete that succeeds when the item is
\* no longer there
UpdateDeleteIfPresent(p) ==
    /\ run[p].pc = "updateRead"
    /\ workOrders' = {w \in workOrders :
                        ~(w.id = run[p].wo.id /\ PkWorkOrder(w) = run[p].oldStatus)}
    /\ Set(p, [run[p] EXCEPT !.pc = "updateDeleted"])
    /\ UNCHANGED <<chatHistories, schedules, partsOrders, rest>>

\* container.delete_item(item=work_order_id, partition_key=old_status)
UpdateDelete(p) ==
    /\ run[p].pc = "updateRead"
    /\ LET old == {w \in workOrders :
                     w.id = run[p].wo.id /\ PkWorkOrder(w) = run[p].oldStatus}
       IN  \/ /\ old # {}
              /\ workOrders' = workOrders \ old
              /\ Set(p, [run[p] EXCEPT !.pc = "updateDeleted"])
           \/ /\ Set(p, Failed(run[p]))   \* not found, or the request failed
              /\ UNCHANGED workOrders
    /\ UNCHANGED <<chatHistories, schedules, partsOrders, rest>>

\* container.upsert_item(body=item) with the new status
UpdateUpsert(p) ==
    /\ run[p].pc = "updateDeleted"
    /\ \/ /\ workOrders' = UpsertWorkOrder(workOrders,
                               [run[p].wo EXCEPT !.status = run[p].newStatus])
          /\ Set(p, Done(run[p]))
       \/ /\ Set(p, Failed(run[p]))
          /\ UNCHANGED workOrders
    /\ UNCHANGED <<chatHistories, schedules, partsOrders, rest>>

Step(p) ==
    \/ Start(p)
    \/ GetWorkOrder(p)
    \/ GetMaintenanceHistory(p)
    \/ GetMaintenanceWindows(p)
    \/ CheckInventory(p)
    \/ GetSuppliers(p)
    \/ BuildContext(p)
    \/ LoadChatHistory(p)
    \/ RestoreHistory(p)
    \/ RunAgent(p)
    \/ SaveThreadHistory(p)
    \/ ExtractResponse(p)
    \/ ParseResponse(p)
    \/ SaveSchedule(p)
    \/ SavePartsOrder(p)
    \/ UpdateRead(p)
    \/ UpdateDelete(p)
    \/ UpdateUpsert(p)

Next == \E p \in Procs : Step(p)

Spec == Init /\ [][Next]_vars

-----------------------------------------------------------------------------
(* The construction of the result object, on its own: SpecParse applies    *)
(* BuildSchedule and BuildOrder to every parsed response of ParseInputs.   *)

TopKeys ==
    {"scheduledDate", "maintenanceWindow", "riskScore",
     "predictedFailureProbability", "recommendedAction", "reasoning"}

OrderKeys ==
    {"supplierId", "supplierName", "orderItems", "totalCost",
     "expectedDeliveryDate"}

Dates == {DateZ, DateOffset, DateBad}

Windows ==
    {GoodWindow, [GoodWindow EXCEPT !.startTime = DateBad]}
        \cup {Without(GoodWindow, k) : k \in Range(WindowKeys)}

ItemLists ==
    {<<>>, <<GoodItem>>, <<GoodItem, Without(GoodItem, "quantity")>>}
        \cup {<<Without(GoodItem, k)>> : k \in Range(ItemKeys)}

\* at most one key of keys left out
LeftOut(keys) == {{}} \cup {{k} : k \in keys}

Restrict(d, out) == [x \in (DOMAIN d) \ out |-> d[x]]

\* parsed scheduling responses: every date, window, score, probability and
\* action of the sets below, with at most one top-level key missing
ScheduleInputs ==
    {Restrict([GoodData EXCEPT !.scheduledDate = d, !.maintenanceWindow = w,
                               !.riskScore = r,
                               !.predictedFailureProbability = q,
                               !.recommendedAction = a], out) :
        d \in Dates, w \in Windows, r \in {75, 150}, q \in {650, 1500},
        a \in {"URGENT", "MAYBE"}, out \in LeftOut(TopKeys)}

\* parsed parts-ordering responses
OrderInputs ==
    {Restrict([GoodOrderData EXCEPT !.orderItems = items,
                                    !.expectedDeliveryDate = d], out) :
        items \in ItemLists, d \in Dates, out \in LeftOut(OrderKeys)}

ParseInputs ==
    {[wf |-> "schedule", data |-> d] : d \in ScheduleInputs}
        \cup {[wf |-> "order", data |-> d] : d \in OrderInputs}

InitParse ==
    /\ workOrders = InitWorkOrders
    /\ chatHistories = InitChat
    /\ schedules = {}
    /\ partsOrders = {}
    /\ run = [p \in Procs |-> IdleRun]
    /\ started = 0
    /\ callIn \in ParseInputs
    /\ callOut = NotCalled

\* return MaintenanceSchedule(...) of predict_schedule, on data = callIn.data
CallBuildSchedule ==
    /\ callOut = NotCalled
    /\ callIn.wf = "schedule"
    /\ callOut' = BuildSchedule(callIn.data, WorkOrder1, 1)
    /\ UNCHANGED <<stores, run, started, callIn>>

\* return PartsOrder(...) of generate_order, on data = callIn.data
CallBuildOrder ==
    /\ callOut = NotCalled
    /\ callIn.wf = "order"
    /\ callOut' = BuildOrder(callIn.data, WorkOrder1, 1)
    /\ UNCHANGED <<stores, run, started, callIn>>

NextParse == CallBuildSchedule \/ CallBuildOrder

SpecParse == InitParse /\ [][NextParse]_vars

-----------------------------------------------------------------------------
(* Gathering with data: what get_maintenance_history and                   *)
(* get_available_maintenance_windows make of the stored items.  A moment   *)
(* is a day number and a minute of that day; a stored date string is held  *)
(* by what parsing reads from it: whether it is ISO formatted, the moment  *)
(* it writes, and what follows the moment ("Z", "+00:00" or nothing).      *)

MinutesPerDay == 24 * 60

\* the ISO string of a moment, followed by suffix
IsoString(day, minute, suffix) ==
    [iso |-> TRUE, day |-> day, minute |-> minute, suffix |-> suffix]

\* a string that is no ISO date
NotIso == [iso |-> FALSE, day |-> 0, minute |-> 0, suffix |-> ""]

\* what item.get(key) gives for a key the item lacks
NoneString == [iso |-> FALSE, day |-> 0, minute |-> 0, suffix |-> "None"]

\* None where a datetime is expected
NoneDate == [set |-> FALSE, day |-> 0, minute |-> 0, aware |-> FALSE]

\* a datetime: naive, or aware (carrying the offset +00:00)
Datetime(day, minute, aware) ==
    [set |-> TRUE, day |-> day, minute |-> minute, aware |-> aware]

\* item.get(key, default)
Get(item, key, default) == IF key \in DOMAIN item THEN item[key] ELSE default

\* parse_datetime(dt_str): None for None and for what fromisoformat rejects
ParseDatetime(dt_str) ==
    IF dt_str = NoneString \/ ~dt_str.iso THEN NoneDate
    ELSE Datetime(dt_str.day, dt_str.minute,
                  ReplaceZ(dt_str).suffix = "+00:00")

\* MaintenanceHistory(id=item.get('id', ''), ...)
HistoryRecord(item) ==
    [id |-> Get(item, "id", ""),
     machine_id |-> Get(item, "machineId", ""),
     fault_type |-> Get(item, "faultType", ""),
     occurrence_date |-> ParseDatetime(Get(item, "occurrenceDate", NoneString)),
     resolution_date |-> ParseDatetime(Get(item, "resolutionDate", NoneString)),
     downtime |-> Get(item, "downtime", 0),
     cost |-> Get(item, "cost", 0)]

\* SELECT * FROM c WHERE c.machineId = @machineId ORDER BY ...: the items of
\* the machine, in the order the container yields them
QueryHistory(container, machine_id) ==
    SelectSeq(container,
              LAMBDA c : "machineId" \in DOMAIN c /\ c["machineId"] = machine_id)

\* faulty variant of ReadHistory: the failure of the read is not caught
ReadHistoryRaising(container, machine_id, fails) ==
    IF fails THEN Raised("CosmosHttpResponseError", "")
    ELSE LET items == QueryHistory(container, machine_id)
         IN  Returned([i \in 1..Len(items) |-> HistoryRecord(items[i])])

\* get_maintenance_history(machine_id); fails: the container raises
ReadHistory(container, machine_id, fails) ==
    IF fails THEN Returned(<<>>)
    ELSE LET items == QueryHistory(container, machine_id)
         IN  Returned([i \in 1..Len(items) |-> HistoryRecord(items[i])])

\* dt + timedelta(minutes=m), m >= 0
AddMinutes(dt, m) ==
    [dt EXCEPT !.day = dt.day + (dt.minute + m) \div MinutesPerDay,
               !.minute = (dt.minute + m) % MinutesPerDay]

\* dt.replace(hour=h, minute=m)
ReplaceTime(dt, h, m) == [dt EXCEPT !.minute = 60 * h + m]

\* f"mw-{current_date.strftime('%Y-%m-%d')}-night"
MockId(current_date) == "mw-" \o ToString(current_date.day) \o "-night"

\* the window _generate_mock_windows makes for current_date
MockWindow(current_date) ==
    [id |-> MockId(current_date),
     start_time |-> ReplaceTime(current_date, 22, 0),
     end_time |-> AddMinutes(ReplaceTime(current_date, 23, 59), 6 * 60 + 1),
     production_impact |-> "Low",
     is_available |-> TRUE]

\* faulty variant of GenerateMockWindows: the first window is today's
GenerateMockWindowsFromToday(days_ahead, now) ==
    [i \in 1..days_ahead |->
        MockWindow(AddMinutes(ReplaceTime(now, 0, 0), (i - 1) * MinutesPerDay))]

\* _generate_mock_windows(days_ahead) called at the moment now: one window
\* per i in range(days_ahead), the first for the day after now
GenerateMockWindows(days_ahead, now) ==
    LET start_date == AddMinutes(ReplaceTime(now, 0, 0), MinutesPerDay)
    IN  [i \in 1..days_ahead |->
            MockWindow(AddMinutes(start_date, (i - 1) * MinutesPerDay))]

\* MaintenanceWindow(id=item.get('id', ''), ...)
WindowRecord(item) ==
    [id |-> Get(item, "id", ""),
     start_time |-> ParseDatetime(Get(item, "startTime", NoneString)),
     end_time |-> ParseDatetime(Get(item, "endTime", NoneString)),
     production_impact |-> Get(item, "productionImpact", ""),
     is_available |-> Get(item, "isAvailable", TRUE)]

\* get_available_maintenance_windows(days_ahead) called at the moment now;
\* items: what the query yields, fails: the container raises
ReadWindows(items, fails, days_ahead, now) ==
    LET results == [i \in 1..Len(items) |-> WindowRecord(items[i])]
    IN  IF fails \/ results = <<>>
        THEN GenerateMockWindows(days_ahead, now)
        ELSE results

-----------------------------------------------------------------------------
(* _build_context.  The text is held as the sequence of its lines; a line  *)
(* is its kind, the string it interpolates and the numbers it prints.  A   *)
(* cost is a whole number of dollars; an average cost is printed in cents, *)
(* a percentage and a duration in tenths.                                  *)

Line(kind, text, n) == [kind |-> kind, text |-> text, n |-> n]

Blank == Line("blank", "", <<>>)

RECURSIVE SumSeq(_)
SumSeq(s) == IF s = <<>> THEN 0 ELSE Head(s) + SumSeq(Tail(s))

\* num / den printed with no further digit (f"{x:.0f}" and, on a scaled
\* numerator, f"{x:.1f}" and f"{x:.2f}"): the nearest integer, the even one
\* of two that are equally near; den > 0
RoundHalfEven(num, den) ==
    LET q == num \div den
        r == num % den
    IN  IF 2 * r < den THEN q
        ELSE IF 2 * r > den THEN q + 1
        ELSE IF q % 2 = 0 THEN q ELSE q + 1

\* the minutes from the start of day 0 to dt
Minutes(dt) == dt.day * MinutesPerDay + dt.minute

\* (b - a).days
DaysBetween(a, b) == (Minutes(b) - Minutes(a)) \div MinutesPerDay

\* a - b, a < b, sorted([a, b]) raise TypeError for a naive and an aware
\* datetime
Mixed(dates) ==
    \E i, j \in DOMAIN dates : dates[i].aware /\ ~dates[j].aware

RECURSIVE Insert(_, _)
Insert(d, s) ==
    IF s = <<>> THEN <<d>>
    ELSE IF Minutes(d) <= Minutes(Head(s)) THEN <<d>> \o s
    ELSE <<Head(s)>> \o Insert(d, Tail(s))

\* sorted(dates), for dates that compare
RECURSIVE Sorted(_)
Sorted(dates) ==
    IF dates = <<>> THEN <<>> ELSE Insert(Head(dates), Sorted(Tail(dates)))

\* [h for h in history if h.fault_type == work_order.fault_type]
RelevantHistory(work_order, history) ==
    SelectSeq(history, LAMBDA h : h.fault_type = work_order.fault_type)

\* sorted([h.occurrence_date for h in relevant_history if h.occurrence_date])
RelevantDates(relevant_history) ==
    LET dated == SelectSeq(relevant_history, LAMBDA h : h.occurrence_date.set)
    IN  [i \in 1..Len(dated) |-> dated[i].occurrence_date]

\* [(dates[i] - dates[i-1]).days for i in range(1, len(dates))]
Intervals(dates) ==
    [i \in 1..(Len(dates) - 1) |-> DaysBetween(dates[i], dates[i + 1])]

\* what the interval statistics of _build_context raise: "" when nothing
TimingError(relevant_history) ==
    LET dates == RelevantDates(relevant_history)
    IN  IF Len(relevant_history) < 2 \/ Len(dates) < 2 THEN ""
        ELSE IF Mixed(dates) THEN "TypeError"
        ELSE IF dates[1].aware THEN "TypeError"
        ELSE IF SumSeq(Intervals(Sorted(dates))) = 0 THEN "ZeroDivisionError"
        ELSE ""

\* faulty variant of TimingLines: an MTBF of 0 when there are fewer than two
\* dates
TimingLinesZero(relevant_history, now) ==
    IF Len(RelevantDates(relevant_history)) < 2
    THEN << Line("mtbf", "", <<0>>) >>
    ELSE <<>>

\* the MTBF, days-since-last and progress lines, read at the moment now
TimingLines(relevant_history, now) ==
    LET dates == Sorted(RelevantDates(relevant_history))
        intervals == Intervals(dates)
        last_occurrence == dates[Len(dates)]
        days_since_last == DaysBetween(last_occurrence, now)
    IN  IF Len(relevant_history) < 2 \/ Len(dates) < 2 THEN <<>>
        ELSE << Line("mtbf", "",
                     <<RoundHalfEven(SumSeq(intervals), Len(intervals))>>),
                Line("days_since_last", "", <<days_since_last>>),
                Line("progress", "",
                     <<RoundHalfEven(days_since_last * 1000 * Len(intervals),
                                     SumSeq(intervals))>>) >>

\* the lines about the records with the fault type of the work order
RelevantLines(work_order, history, now) ==
    LET relevant_history == RelevantHistory(work_order, history)
        count == Len(relevant_history)
        downtimes == [i \in 1..count |-> relevant_history[i].downtime]
        costs == [i \in 1..count |-> relevant_history[i].cost]
    IN  IF relevant_history = <<>>
        THEN << Line("no_previous_occurrences", work_order.fault_type, <<>>) >>
        ELSE << Line("similar_fault_type", work_order.fault_type, <<>>),
                Line("occurrences", "", <<count>>),
                Line("average_downtime", "",
                     <<RoundHalfEven(SumSeq(downtimes), count)>>),
                Line("average_cost", "",
                     <<RoundHalfEven(100 * SumSeq(costs), count)>>) >>
             \o TimingLines(relevant_history, now)

ShownRecords == 5

ShownWindows == 10

\* for record in history[:5]: if record.occurrence_date: ...
RecentLines(history) ==
    LET first == SubSeq(history, 1, Min(Len(history), ShownRecords))
        dated == SelectSeq(first, LAMBDA h : h.occurrence_date.set)
    IN  [i \in 1..Len(dated) |->
            Line("event", dated[i].fault_type,
                 <<dated[i].occurrence_date.day, dated[i].downtime,
                   dated[i].cost>>)]

HistoryLines(work_order, history, now) ==
    IF history # <<>>
    THEN << Line("total_events", "", <<Len(history)>>), Blank >>
         \o RelevantLines(work_order, history, now)
         \o << Blank, Line("recent_events", "", <<>>) >>
         \o RecentLines(history)
    ELSE << Line("no_history", "", <<>>), Line("fault_and_priority_only", "", <<>>) >>

\* the windows of windows[:10] with a start and an end
RenderedWindows(windows) ==
    SelectSeq(SubSeq(windows, 1, Min(Len(windows), ShownWindows)),
              LAMBDA w : w.start_time.set /\ w.end_time.set)

\* window.end_time - window.start_time raises
WindowError(windows) ==
    IF \E i \in DOMAIN RenderedWindows(windows) :
          LET w == RenderedWindows(windows)[i]
          IN  w.start_time.aware # w.end_time.aware
    THEN "TypeError" ELSE ""

RECURSIVE Flatten(_)
Flatten(ss) == IF ss = <<>> THEN <<>> ELSE Head(ss) \o Flatten(Tail(ss))

\* the three lines of a window; the duration in tenths of an hour
OneWindowLines(w) ==
    << Line("window", "",
            <<w.start_time.day, w.start_time.minute, w.end_time.minute,
              RoundHalfEven((Minutes(w.end_time) - Minutes(w.start_time)) * 10, 60)>>),
       Line("production_impact", w.production_impact, <<>>),
       Line("window_id", w.id, <<>>) >>

WindowLines(windows) ==
    IF windows # <<>>
    THEN Flatten([i \in 1..Len(RenderedWindows(windows)) |->
                     OneWindowLines(RenderedWindows(windows)[i])])
    ELSE << Line("no_windows", "", <<>>) >>

InstructionCount == 6

SkeletonCount == 16

\* "## Analysis Required", the numbered requests, the fenced JSON skeleton
InstructionLines ==
    << Blank, Line("analysis_required", "", <<>>) >>
    \o [i \in 1..InstructionCount |-> Line("request", "", <<i>>)]
    \o << Blank >>
    \o [i \in 1..SkeletonCount |-> Line("skeleton", "", <<i>>)]

HeaderLines(work_order) ==
    << Line("title", "", <<>>), Blank,
       Line("work_order_information", "", <<>>),
       Line("work_order_id", work_order.id, <<>>),
       Line("machine_id", work_order.machine_id, <<>>),
       Line("fault_type", work_order.fault_type, <<>>),
       Line("priority", work_order.priority, <<>>),
       Line("estimated_duration", "", <<work_order.estimated_duration>>),
       Blank,
       Line("historical_data", "", <<>>) >>

\* _build_context(work_order, history, windows), with datetime.utcnow()
\* giving now when the function reads it
BuildContextLines(work_order, history, windows, now) ==
    LET err == TimingError(RelevantHistory(work_order, history))
    IN  IF err # "" THEN Raised(err, "")
        ELSE IF WindowError(windows) # "" THEN Raised(WindowError(windows), "")
        ELSE Returned(HeaderLines(work_order)
                      \o HistoryLines(work_order, history, now)
                      \o << Blank, Line("available_windows", "", <<>>) >>
                      \o WindowLines(windows)
                      \o InstructionLines)

-----------------------------------------------------------------------------
(* One scheduling run from its reads to the call of the agent, with the    *)
(* data it handles: steps 2 to 4 of main for a work order already read.    *)
(* Day 0 is 2025-11-20; the run takes place on day 40.                     *)

MaxStored == 2

MaxDaysAhead == 3

\* the work order of the run
CtxWorkOrder ==
    [id |-> "wo-1", machine_id |-> "M-1", fault_type |-> "F1",
     priority |-> "High", estimated_duration |-> 180]

\* items of the MaintenanceHistory container: two faults F1 of machine M-1
\* (dates as the repository's fixtures write them), a fault of another
\* machine, and an item of M-1 with a date that does not parse and without
\* downtime and cost
HistoryItems ==
    { [id |-> "hist-001", machineId |-> "M-1", faultType |-> "F1",
       occurrenceDate |-> IsoString(25, 8 * 60, "Z"),
       resolutionDate |-> IsoString(25, 11 * 60 + 30, "Z"),
       downtime |-> 210, cost |-> 1500],
      [id |-> "hist-002", machineId |-> "M-1", faultType |-> "F1",
       occurrenceDate |-> IsoString(0, 14 * 60, "Z"),
       resolutionDate |-> IsoString(0, 17 * 60, "Z"),
       downtime |-> 180, cost |-> 1200],
      [id |-> "hist-003", machineId |-> "M-2", faultType |-> "F1",
       occurrenceDate |-> IsoString(30, 0, "Z"),
       resolutionDate |-> IsoString(30, 60, "Z"),
       downtime |-> 60, cost |-> 100],
      [id |-> "hist-004", machineId |-> "M-1", faultType |-> "F2",
       occurrenceDate |-> NotIso] }

\* items the window query yields: a complete one and one with only its id
\* and start
WindowItems ==
    { [id |-> "mw-1", startTime |-> IsoString(41, 22 * 60, "Z"),
       endTime |-> IsoString(42, 6 * 60, "Z"),
       productionImpact |-> "Medium", isAvailable |-> TRUE],
      [id |-> "mw-2", startTime |-> IsoString(42, 22 * 60, "Z")] }

\* the sequences over S of length at most n
SeqsUpTo(S, n) == UNION {[1..k -> S] : k \in 0..n}

GatherInputs ==
    [work_order : {CtxWorkOrder},
     history_container : SeqsUpTo(HistoryItems, MaxStored),
     history_fails : BOOLEAN,
     window_items : SeqsUpTo(WindowItems, MaxStored),
     windows_fail : BOOLEAN,
     days_ahead : 0..MaxDaysAhead,
     now : {Datetime(40, 0, FALSE), Datetime(40, 23 * 60 + 30, FALSE)}]

GatherStart ==
    [pc |-> "start", failedAt |-> "", history |-> <<>>, windows |-> <<>>,
     sent |-> <<>>]

InitGather ==
    /\ workOrders = InitWorkOrders
    /\ chatHistories = InitChat
    /\ schedules = {}
    /\ partsOrders = {}
    /\ run = [p \in Procs |-> IdleRun]
    /\ started = 0
    /\ callIn \in GatherInputs
    /\ callOut = GatherStart

\* the exception reaches main's handler
GatherFailed(at) == [GatherStart EXCEPT !.pc = "failed", !.failedAt = at]

\* history = await cosmos_service.get_maintenance_history(work_order.machine_id)
CallReadHistory ==
    /\ callOut.pc = "start"
    /\ LET res == ReadHistory(callIn.history_container,
                              callIn.work_order.machine_id, callIn.history_fails)
       IN  callOut' = IF res.ok
                      THEN [callOut EXCEPT !.pc = "history", !.history = res.value]
                      ELSE GatherFailed("history")
    /\ UNCHANGED <<stores, run, started, callIn>>

\* windows = await cosmos_service.get_available_maintenance_windows(n)
CallReadWindows ==
    /\ callOut.pc = "history"
    /\ callOut' = [callOut EXCEPT
                     !.pc = "windows",
                     !.windows = ReadWindows(callIn.window_items, callIn.windows_fail,
                                             callIn.days_ahead, callIn.now)]
    /\ UNCHANGED <<stores, run, started, callIn>>

\* context = self._build_context(work_order, history, windows)
CallBuildContext ==
    /\ callOut.pc = "windows"
    /\ LET res == BuildContextLines(callIn.work_order, callOut.history,
                                    callOut.windows, callIn.now)
       IN  callOut' = IF res.ok
                      THEN [callOut EXCEPT !.pc = "context", !.sent = res.value]
                      ELSE GatherFailed("context")
    /\ UNCHANGED <<stores, run, started, callIn>>

\* result = await agent.run(context, thread=thread)
CallAgentRun ==
    /\ callOut.pc = "context"
    /\ callOut' = [callOut EXCEPT !.pc = "invoked"]
    /\ UNCHANGED <<stores, run, started, callIn>>

NextGather ==
    CallReadHistory \/ CallReadWindows \/ CallBuildContext \/ CallAgentRun

SpecGather == InitGather /\ [][NextGather]_vars

-----------------------------------------------------------------------------
(* _build_context on its own: called on a work order, a history list and a *)
(* window list, once or twice, while the clock that datetime.utcnow()      *)
(* reads goes on.                                                          *)

MaxHistory == 3

MaxCalls == 2

LastDay == 41

\* MaintenanceHistory(...) of the machine of the work order
Record(fault_type, occurrence_date, downtime, cost) ==
    [id |-> "hist", machine_id |-> "M-1", fault_type |-> fault_type,
     occurrence_date |-> occurrence_date, resolution_date |-> NoneDate,
     downtime |-> downtime, cost |-> cost]

\* faults F1 on day 0 and on day 25 (naive dates, as the repository's test
\* builds them), the fault of day 25 as get_maintenance_history builds it
\* from the fixture (an aware date), a fault F1 without a date, a fault F2
Records ==
    { Record("F1", Datetime(0, 14 * 60, FALSE), 180, 1200),
      Record("F1", Datetime(25, 8 * 60, FALSE), 210, 1500),
      Record("F1", ParseDatetime(IsoString(25, 8 * 60, "Z")), 210, 1500),
      Record("F1", NoneDate, 65, 0),
      Record("F2", Datetime(30, 0, FALSE), 30, 100) }

\* n records, one a day, the most recent first
DailyRecords(n) ==
    [i \in 1..n |-> Record("F2", Datetime(n - i, 12 * 60, FALSE), 10 * i, i)]

\* history lists: the short ones, and lists of more than five records, most
\* recent first (with and without an undated record among them) or last
HistoryLists ==
    SeqsUpTo(Records, MaxHistory)
    \cup { DailyRecords(ShownRecords + 2),
           Reverse(DailyRecords(ShownRecords + 2)),
           <<Record("F1", NoneDate, 65, 0)>> \o DailyRecords(ShownRecords + 1) }

\* window lists: none, one window without an end, generated windows
\* (soonest first), and more than ten windows latest first
WindowLists ==
    { <<>>,
      <<WindowRecord([id |-> "mw-2", startTime |-> IsoString(42, 22 * 60, "Z")])>>,
      GenerateMockWindows(2, Datetime(40, 0, FALSE)),
      GenerateMockWindows(ShownWindows + 2, Datetime(40, 0, FALSE)),
      Reverse(GenerateMockWindows(ShownWindows + 2, Datetime(40, 0, FALSE))) }

ContextInputs ==
    [work_order : {CtxWorkOrder}, history : HistoryLists,
     windows : WindowLists, now : {Datetime(40, 0, FALSE)}]

InitContext ==
    /\ workOrders = InitWorkOrders
    /\ chatHistories = InitChat
    /\ schedules = {}
    /\ partsOrders = {}
    /\ run = [p \in Procs |-> IdleRun]
    /\ started = 0
    /\ callIn \in ContextInputs
    /\ callOut = <<>>

\* the clock goes on by half a day
Tick ==
    /\ callIn.now.day < LastDay
    /\ callIn' = [callIn EXCEPT !.now = AddMinutes(callIn.now, 12 * 60)]
    /\ UNCHANGED <<stores, run, started, callOut>>

\* self._build_context(work_order, history, windows); at: what the clock
\* showed during the call
CallContext ==
    /\ Len(callOut) < MaxCalls
    /\ callOut' = Append(callOut,
                         [at |-> callIn.now,
                          res |-> BuildContextLines(callIn.work_order, callIn.history,
                                                    callIn.windows, callIn.now)])
    /\ UNCHANGED <<stores, run, started, callIn>>

NextContext == Tick \/ CallContext

SpecContext == InitContext /\ [][NextContext]_vars

-----------------------------------------------------------------------------
(* extract_json on texts.  A text is a sequence of tokens: the tagged      *)
(* fence (three backquotes and json), the bare fence (three backquotes),   *)
(* "{", "}", white space " ", and                                          *)
(* "x" for a run of characters that are none of these (letters, digits,    *)
(* quotes, colons, commas).  A search for the bare fence also finds the    *)
(* first three characters of a tagged fence.                               *)

MaxText == 4

FenceJson == "fence-json"

Fence == "fence"

Tokens == {FenceJson, Fence, "{", "}", " ", "x"}

\* token t begins with the searched string pat
Matches(t, pat) == t = pat \/ (pat = Fence /\ t = FenceJson)

\* response.find(pat, from): the first position at or after from where pat
\* is found (positions count from 1), 0 when there is none
Find(response, pat, from) ==
    LET at == {i \in from..Len(response) : Matches(response[i], pat)}
    IN  IF at = {} THEN 0 ELSE CHOOSE i \in at : \A j \in at : i <= j

\* response.rfind(pat): the last position where pat is found, 0 when none
RFind(response, pat) ==
    LET at == {i \in 1..Len(response) : Matches(response[i], pat)}
    IN  IF at = {} THEN 0 ELSE CHOOSE i \in at : \A j \in at : i >= j

\* s.strip()
RECURSIVE Strip(_)
Strip(s) ==
    IF s = <<>> THEN s
    ELSE IF Head(s) = " " THEN Strip(Tail(s))
    ELSE IF s[Len(s)] = " " THEN Strip(SubSeq(s, 1, Len(s) - 1))
    ELSE s

\* extract_json(response) of utils/json_helpers.py (and _extract_json of
\* parts_ordering.py): str.index raises ValueError when the fence is not
\* closed; response[start:end+1] is empty when the last "}" is before the
\* first "{" and when there is no "}" (rfind gives -1, the slice ends at 0)
ExtractFromText(response) ==
    IF Find(response, FenceJson, 1) > 0
    THEN LET start == Find(response, FenceJson, 1) + 1
             end == Find(response, Fence, start)
         IN  IF end = 0 THEN Raised("ValueError", "")
             ELSE Returned(Strip(SubSeq(response, start, end - 1)))
    ELSE IF Find(response, "{", 1) > 0
    THEN LET start == Find(response, "{", 1)
             end == RFind(response, "}")
         IN  Returned(SubSeq(response, start, end))
    ELSE Raised("Exception", "")

\* serialized objects (json.dumps of a decision): flat, with a nested
\* object (maintenanceWindow), and with three backquotes inside a string
\* (reasoning)
Objects ==
    { <<"{", "x", "}">>,
      <<"{", "x", "{", "x", "}", "x", "}">>,
      <<"{", "x", " ", "x", "}">>,
      <<"{", "x", Fence, "x", "}">> }

\* prose around the object: none, words, words with braces, an untagged
\* code block, a tagged code block with another object
Prose ==
    { <<>>, <<"x", " ">>, <<"x", "{", "x", "}", " ">>,
      <<Fence, "x", Fence>>, <<FenceJson, "{", "}", Fence, " ">> }

\* the object in a tagged fenced block, in prose
Fenced(before, pad, object, after) ==
    before \o <<FenceJson>> \o pad \o object \o pad \o <<Fence>> \o after

ExtractInputs ==
    {[kind |-> "fenced", object |-> o, text |-> Fenced(b, p, o, a)] :
        b \in Prose, p \in {<<>>, <<" ">>}, o \in Objects, a \in Prose}
    \cup {[kind |-> "bare", object |-> o, text |-> b \o o \o a] :
        b \in Prose, o \in Objects, a \in Prose}
    \cup {[kind |-> "any", object |-> <<>>, text |-> t] :
        t \in SeqsUpTo(Tokens, MaxText)}

InitExtract ==
    /\ workOrders = InitWorkOrders
    /\ chatHistories = InitChat
    /\ schedules = {}
    /\ partsOrders = {}
    /\ run = [p \in Procs |-> IdleRun]
    /\ started = 0
    /\ callIn \in ExtractInputs
    /\ callOut = NotCalled

\* json_response = extract_json(response_text)
CallExtractJson ==
    /\ callOut = NotCalled
    /\ callOut' = ExtractFromText(callIn.text)
    /\ UNCHANGED <<stores, run, started, callIn>>

NextExtract == CallExtractJson

SpecExtract == InitExtract /\ [][NextExtract]_vars

-----------------------------------------------------------------------------
(* update_work_order_status on work orders with all their fields:          *)
(* SpecUpdate runs status updates one after the other on a stored work     *)
(* order, reading it into a WorkOrder and writing the WorkOrder back.      *)

MaxUpdates == 2

Statuses == {"Created", "Scheduled", "Ready", "PartsOrdered"}

\* RequiredPart(part_number=p.get('partNumber', ''), ...)
RequiredPartObject(p) ==
    [part_number |-> Get(p, "partNumber", ""),
     part_name |-> Get(p, "partName", ""),
     quantity |-> Get(p, "quantity", 0),
     is_available |-> Get(p, "isAvailable", FALSE)]

\* WorkOrder(id=item.get('id', ''), ...) of get_work_order
WorkOrderObject(item) ==
    [id |-> Get(item, "id", ""),
     machine_id |-> Get(item, "machineId", ""),
     fault_type |-> Get(item, "faultType", ""),
     priority |-> Get(item, "priority", ""),
     assigned_technician |-> Get(item, "assignedTechnician", ""),
     required_parts |->
        LET parts == Get(item, "requiredParts", <<>>)
        IN  [i \in DOMAIN parts |-> RequiredPartObject(parts[i])],
     estimated_duration |-> Get(item, "estimatedDuration", 0),
     created_at |-> ParseDatetime(Get(item, "createdAt", NoneString)),
     status |-> Get(item, "status", "Created")]

\* faulty variant of Isoformat: the offset of an aware datetime is dropped
IsoformatNaive(dt) ==
    IF dt.set THEN IsoString(dt.day, dt.minute, "") ELSE NoneString

\* dt.isoformat() if dt else None
Isoformat(dt) ==
    IF dt.set THEN IsoString(dt.day, dt.minute, IF dt.aware THEN "+00:00" ELSE "")
    ELSE NoneString

\* the item update_work_order_status builds from the WorkOrder it read
WorkOrderItem(work_order, new_status) ==
    [id |-> work_order.id,
     machineId |-> work_order.machine_id,
     faultType |-> work_order.fault_type,
     priority |-> work_order.priority,
     assignedTechnician |-> work_order.assigned_technician,
     requiredParts |->
        [i \in DOMAIN work_order.required_parts |->
            [partNumber |-> work_order.required_parts[i].part_number,
             partName |-> work_order.required_parts[i].part_name,
             quantity |-> work_order.required_parts[i].quantity,
             isAvailable |-> work_order.required_parts[i].is_available]],
     estimatedDuration |-> work_order.estimated_duration,
     createdAt |-> Isoformat(work_order.created_at),
     status |-> new_status]

\* stored work orders wo-1: complete, with each form of createdAt; a part
\* without its isAvailable flag; and a document with id and status only
WorkOrderItems ==
    {[id |-> "wo-1", machineId |-> "M-1", faultType |-> "F1",
      priority |-> "High", assignedTechnician |-> "T-1",
      requiredParts |-> <<[partNumber |-> "P-1", partName |-> "belt",
                           quantity |-> 2, isAvailable |-> TRUE]>>,
      estimatedDuration |-> 180, createdAt |-> created, status |-> st] :
        created \in {IsoString(10, 600, "Z"), IsoString(10, 600, "+00:00"),
                     IsoString(10, 600, ""), NotIso},
        st \in {"Created", "Scheduled"}}
    \cup {[id |-> "wo-1", machineId |-> "M-1", faultType |-> "F1",
           priority |-> "High", assignedTechnician |-> "T-1",
           requiredParts |-> <<[partNumber |-> "P-1", partName |-> "belt",
                                quantity |-> 2]>>,
           estimatedDuration |-> 180, status |-> "Created"],
          [id |-> "wo-1", status |-> "Created"]}

\* the other work order of the store
OtherWorkOrder ==
    [id |-> "wo-2", machineId |-> "M-2", faultType |-> "F2",
     priority |-> "Low", assignedTechnician |-> "T-2", requiredParts |-> <<>>,
     estimatedDuration |-> 60, createdAt |-> IsoString(11, 0, "Z"),
     status |-> "Created"]

\* callOut of SpecUpdate: where the call is, what it read, the calls so far,
\* whether a call has completed and whether one stopped after its delete
UpdateIdle ==
    [pc |-> "idle", work_order |-> WorkOrderObject(<<>>), old_status |-> "",
     calls |-> 0, completed |-> FALSE, lost |-> FALSE]

InitUpdate ==
    /\ \E item \in WorkOrderItems : workOrders = {item, OtherWorkOrder}
    /\ chatHistories = InitChat
    /\ schedules = {}
    /\ partsOrders = {}
    /\ run = [p \in Procs |-> IdleRun]
    /\ started = 0
    /\ callIn = [work_order_id |-> "wo-1", status |-> "Created"]
    /\ callOut = UpdateIdle

\* await cosmos_service.update_work_order_status(work_order_id, status)
CallUpdate ==
    /\ callOut.pc \in {"idle", "done", "failed"}
    /\ callOut.calls < MaxUpdates
    /\ \E status \in Statuses : callIn' = [callIn EXCEPT !.status = status]
    /\ callOut' = [callOut EXCEPT !.pc = "start", !.calls = @ + 1]
    /\ UNCHANGED <<stores, run, started>>

\* work_order = await self.get_work_order(work_order_id); old_status = ...
CallUpdateRead ==
    /\ callOut.pc = "start"
    /\ \/ \E item \in QueryWorkOrder(workOrders, callIn.work_order_id) :
            callOut' = [callOut EXCEPT !.pc = "read",
                           !.work_order = WorkOrderObject(item),
                           !.old_status = WorkOrderObject(item).status]
       \/ /\ QueryWorkOrder(workOrders, callIn.work_order_id) = {}
          /\ callOut' = [callOut EXCEPT !.pc = "failed"]
       \/ callOut' = [callOut EXCEPT !.pc = "failed"]
    /\ UNCHANGED <<stores, run, started, callIn>>

\* container.delete_item(item=work_order_id, partition_key=old_status)
CallUpdateDelete ==
    /\ callOut.pc = "read"
    /\ LET old == {w \in workOrders : w.id = callIn.work_order_id
                                       /\ PkWorkOrder(w) = callOut.old_status}
       IN  \/ /\ old # {}
              /\ workOrders' = workOrders \ old
              /\ callOut' = [callOut EXCEPT !.pc = "deleted"]
           \/ /\ callOut' = [callOut EXCEPT !.pc = "failed"]
              /\ UNCHANGED workOrders
    /\ UNCHANGED <<chatHistories, schedules, partsOrders, run, started, callIn>>

\* container.upsert_item(body=item), or the call ends before it or in it
CallUpdateUpsert ==
    /\ callOut.pc = "deleted"
    /\ \/ /\ workOrders' = UpsertWorkOrder(workOrders,
                               WorkOrderItem(callOut.work_order, callIn.status))
          /\ callOut' = [callOut EXCEPT !.pc = "done", !.completed = TRUE]
       \/ /\ callOut' = [callOut EXCEPT !.pc = "failed", !.lost = TRUE]
          /\ UNCHANGED workOrders
    /\ UNCHANGED <<chatHistories, schedules, partsOrders, run, started, callIn>>

NextUpdate ==
    \/ CallUpdate
    \/ CallUpdateRead
    \/ CallUpdateDelete
    \/ CallUpdateUpsert

SpecUpdate == InitUpdate /\ [][NextUpdate]_vars

-----------------------------------------------------------------------------
(* save_maintenance_schedule on schedules whose ids are readings of a      *)
(* clock: SpecSave runs the end of scheduling runs one after the other,    *)
(* each with the schedule predict_schedule built and its save.             *)

MaxClock == 2

MaxSaves == 3

\* the schedules predict_schedule can build: for either work order, with
\* either decision, under the id of each reading of the clock
BuiltSchedules ==
    {BuildSchedule(data, wo, id).value :
        data \in {GoodData, [GoodData EXCEPT !.recommendedAction = "MONITOR"]},
        wo \in InitWorkOrders, id \in 1..MaxClock}

\* callOut of SpecSave: where the run is, the store before its save, the
\* runs so far and those whose save succeeded
SaveIdle == [pc |-> "idle", before |-> {}, saves |-> 0, succeeded |-> 0]

InitSave ==
    /\ workOrders = InitWorkOrders
    /\ chatHistories = InitChat
    /\ schedules = {}
    /\ partsOrders = {}
    /\ run = [p \in Procs |-> IdleRun]
    /\ started = 0
    /\ callIn = NoCall
    /\ callOut = SaveIdle

\* schedule = await agent_service.predict_schedule(work_order, history, windows)
CallPredictSchedule ==
    /\ callOut.pc \in {"idle", "saved", "failed"}
    /\ callOut.saves < MaxSaves
    /\ callIn' \in BuiltSchedules
    /\ callOut' = [callOut EXCEPT !.pc = "built", !.saves = @ + 1]
    /\ UNCHANGED <<stores, run, started>>

\* await cosmos_service.save_maintenance_schedule(schedule)
CallSaveSchedule ==
    /\ callOut.pc = "built"
    /\ \/ /\ CreateItem(schedules, callIn).ok
          /\ schedules' = CreateItem(schedules, callIn).value
          /\ callOut' = [callOut EXCEPT !.pc = "saved", !.before = schedules,
                                        !.succeeded = @ + 1]
       \/ /\ callOut' = [callOut EXCEPT !.pc = "failed", !.before = schedules]
          /\ UNCHANGED schedules
    /\ UNCHANGED <<workOrders, chatHistories, partsOrders, run, started, callIn>>

NextSave == CallPredictSchedule \/ CallSaveSchedule

SpecSave == InitSave /\ [][NextSave]_vars

-----------------------------------------------------------------------------
(* Properties                                                              *)

Finished(r) == r.pc \in {"idle", "done", "failed"}

Stages ==
    <<"Gathering", "ContextBuilt", "Invoked", "Extracted", "Validated",
      "Persisted">>

StageNo(stage) == CHOOSE i \in DOMAIN Stages : Stages[i] = stage

\* msgs holds the response of run n
HasExchange(msgs, n) ==
    \E i \in DOMAIN msgs :
        msgs[i].content.kind = "resp" /\ msgs[i].content.n = n

\* the last n elements of s, in the order of s
LastN(s, n) == SubSeq(s, Len(s) - Min(Len(s), n) + 1, Len(s))

\* a parsed scheduling response with every required field
CompleteSchedule(json) ==
    /\ TopKeys \subseteq DOMAIN json
    /\ Range(WindowKeys) \subseteq DOMAIN json["maintenanceWindow"]

\* C1: a scheduling run whose response cannot be extracted, cannot be parsed
\* or lacks a required field ends in failure at that step, and the step
\* writes neither a schedule nor the work order; the run goes on to the save
\* only with the schedule built from a complete response, and up to then no
\* schedule of the run exists.
C1_UnusableResponseFails ==
    [][\A p \in Procs :
         (/\ run[p].wf = "schedule"
          /\ run[p].pc \in {"saved", "extracted"}
          /\ run'[p] # run[p])
         => /\ \A s \in schedules' : s.id # run[p].no
            /\ \/ /\ run'[p].pc = "failed"
                  /\ schedules' = schedules
                  /\ workOrders' = workOrders
               \/ /\ run[p].pc = "saved"
                  /\ run'[p].pc = "extracted"
                  /\ stores' = stores
               \/ /\ run[p].pc = "extracted"
                  /\ run'[p].pc = "validated"
                  /\ stores' = stores
                  /\ \E json \in ScheduleData :
                        /\ CompleteSchedule(json)
                        /\ run'[p].out =
                             BuildSchedule(json, run[p].wo, run[p].no).value]_vars

\* a scheduling run has failed on its extracted response, and the stores are
\* as they were before it
C1_Witness ==
    \E p \in Procs :
        /\ run[p].pc = "failed"
        /\ run[p].wf = "schedule"
        /\ run[p].failedAt = "Extracted"
        /\ schedules = {}
        /\ workOrders = InitWorkOrders

\* C2: a step of a run keeps its stage, moves it to the next stage of
\* Gathering, ContextBuilt, Invoked, Extracted, Validated, Persisted, or
\* fails it; a run that is over takes no step (its process can only start a
\* new run, which writes no store), and every store write is a step of a run
\* that is not over.
C2_StagesInOrder ==
    [][/\ \A p \in Procs :
            run'[p] # run[p] =>
              IF Finished(run[p])
              THEN /\ run'[p].pc = "start"
                   /\ run'[p].stage = "Gathering"
                   /\ stores' = stores
              ELSE \/ run'[p].stage = run[p].stage
                   \/ run'[p].stage = "Failed"
                   \/ StageNo(run'[p].stage) = StageNo(run[p].stage) + 1
       /\ stores' # stores =>
            \E p \in Procs : ~Finished(run[p]) /\ run'[p] # run[p]]_vars

\* one run went through every stage and is done, another failed after its
\* result was validated
C2_Witness ==
    \E p, q \in Procs :
        /\ run[p].pc = "done" /\ run[p].stage = "Persisted"
        /\ run[q].pc = "failed" /\ run[q].failedAt = "Validated"

\* C5: the store holds at most one transcript per entity key, and a
\* transcript holds at most 10 entries.
C5_OneBoundedTranscript ==
    \A c \in chatHistories :
        /\ Len(c.historyJson) <= MaxSavedMessages
        /\ \A d \in chatHistories : d.entityId = c.entityId => d = c

\* the transcript of machine M-1 is full and holds the exchanges of two runs
C5_Witness ==
    \E c \in chatHistories, m, n \in 1..MaxRuns :
        /\ c.entityId = "M-1"
        /\ m # n
        /\ Len(c.historyJson) = MaxSavedMessages
        /\ HasExchange(c.historyJson, m)
        /\ HasExchange(c.historyJson, n)

C7_ReplaysAll ==
    \A p \in Procs :
        (run[p].wf = "schedule" /\ run[p].pc = "restored" /\ run[p].loaded.present)
        => run[p].thread = run[p].loaded.msgs

\* C8: the load, the restore and the save of the transcript never end the
\* run, whether they fail or find nothing: the run goes from each to the
\* next step, and after the save to the extraction of the response.
C8_TranscriptFailuresAbsorbed ==
    [][\A p \in Procs :
         run'[p] # run[p] =>
           /\ run[p].pc = "contextBuilt" => run'[p].pc = "loaded"
           /\ run[p].pc = "loaded" => run'[p].pc = "restored"
           /\ run[p].pc = "invoked" => run'[p].pc = "saved"
           /\ (run[p].pc = "saved" /\ run'[p].pc = "failed")
                => run'[p].failedAt = "Invoked"]_vars

\* one run is past a failed load and a failed save, another past a failed
\* restore and a failed save
C8_Witness ==
    \E p, q \in Procs :
        /\ run[p].pc = "saved" /\ run[p].faults = {"load", "save"}
        /\ run[q].pc = "saved" /\ run[q].faults = {"restore", "save"}

\* C9: a save that succeeds leaves, under the key of the run, a transcript
\* with the exchange of the run and without the exchange of any run that
\* the thread of the saving run does not hold: what a concurrent run saved
\* in between is overwritten, not merged.
C9_LaterSaveOverwrites ==
    [][\A p \in Procs :
         (/\ run[p].pc = "invoked"
          /\ run'[p].pc = "saved"
          /\ "save" \notin run'[p].faults)
         => \A c \in ReadChat(chatHistories', ChatKey(run[p])) :
              /\ HasExchange(c.historyJson, run[p].no)
              /\ \A n \in 1..MaxRuns :
                   (n # run[p].no /\ ~HasExchange(run[p].thread, n))
                   => ~HasExchange(c.historyJson, n)]_vars

\* two runs for the same key have both loaded and saved without a failure,
\* and the stored transcript holds the exchange of one and not of the other
C9_Witness ==
    \E p, q \in Procs, c \in chatHistories :
        /\ p # q
        /\ run[p].pc = "saved" /\ run[p].faults = {}
        /\ run[q].pc = "saved" /\ run[q].faults = {}
        /\ ChatKey(run[p]) = ChatKey(run[q])
        /\ c.id = ChatKey(run[p])
        /\ HasExchange(c.historyJson, run[p].no)
        /\ ~HasExchange(c.historyJson, run[q].no)

\* C10: the transcript a run loads was stored for the purpose of the run.
C10_IsolatedByPurpose ==
    \A p \in Procs :
        run[p].loaded.present => run[p].loaded.purpose = Purpose(run[p].wf)

\* the fields a parsed response lacks among those its workflow requires
MissingFields(call) ==
    IF call.wf = "schedule"
    THEN (TopKeys \ DOMAIN call.data) \cup
         (IF "maintenanceWindow" \in DOMAIN call.data
          THEN Range(WindowKeys) \ DOMAIN call.data["maintenanceWindow"]
          ELSE {})
    ELSE (OrderKeys \ DOMAIN call.data) \cup
         (IF "orderItems" \in DOMAIN call.data
          THEN UNION {Range(ItemKeys) \ DOMAIN call.data["orderItems"][i] :
                        i \in DOMAIN call.data["orderItems"]}
          ELSE {})

\* C3 (under SpecParse): a schedule that predict_schedule returns
\* has a risk score in 0..100, a failure probability in 0.0..1.0 and a
\* recommended action of the enumeration.
C3_OnlyValidSchedules ==
    (callOut.ok /\ callIn.wf = "schedule")
    => /\ callOut.value.risk_score \in 0..100
       /\ callOut.value.predicted_failure_probability \in 0..1000
       /\ callOut.value.recommended_action \in RecommendedActions

\* C4 (under SpecParse): on a parsed response that lacks a required
\* field, the construction returns no object and raises an error that names
\* a field the response lacks.
C4_MissingFieldNamed ==
    (callOut # NotCalled /\ MissingFields(callIn) # {})
    => /\ ~callOut.ok
       /\ callOut.error = "KeyError"
       /\ callOut.field \in MissingFields(callIn)

\* C11: get_work_order either returns a stored work order whose id is the
\* requested one, or raises; it raises whenever no stored work order has
\* that id. When it raises the run is over in its Gathering stage without a
\* store having been written, and what the process does next is start
\* another run: no read, no reasoning, no save and no status update follow.
C11_NotFoundStopsRun ==
    [][\A p \in Procs :
         /\ (run[p].pc = "start" /\ run'[p] # run[p])
            => /\ stores' = stores
               /\ \/ /\ run'[p].pc = "gotWO"
                     /\ run'[p].wo \in workOrders
                     /\ run'[p].wo.id = run[p].arg
                  \/ /\ run'[p].pc = "failed"
                     /\ run'[p].failedAt = "Gathering"
                     /\ run'[p].wo = NoWorkOrder
               /\ (\A w \in workOrders : w.id # run[p].arg)
                  => run'[p].pc = "failed"
         /\ (run[p].pc = "failed" /\ run'[p] # run[p])
            => /\ run'[p].pc = "start"
               /\ stores' = stores]_vars

\* one run asked for a work order that is not stored and has failed while
\* gathering, another holds the stored work order it asked for
C11_Witness ==
    \E p, q \in Procs :
        /\ run[p].pc = "failed" /\ run[p].failedAt = "Gathering"
        /\ run[p].wo = NoWorkOrder
        /\ run[q].pc = "gotWO" /\ run[q].arg = "wo-2" /\ run[q].wo = WorkOrder2

\* the stored history items of the machine of the run, in stored order
StoredOfMachine ==
    SelectSeq(callIn.history_container,
              LAMBDA c : Get(c, "machineId", "") = callIn.work_order.machine_id)

\* C12 (under SpecGather): get_maintenance_history never raises; when the
\* read fails it returns the empty list, otherwise one record per stored
\* item of the machine, in stored order.  A run whose history read failed
\* does not fail, and the context it sends to the agent carries the 'no
\* historical data' marker.
C12_HistoryNeverRaises ==
    /\ callOut.failedAt # "history"
    /\ callOut.pc \notin {"start", "failed"}
       => IF callIn.history_fails
          THEN callOut.history = <<>>
          ELSE /\ Len(callOut.history) = Len(StoredOfMachine)
               /\ \A i \in DOMAIN StoredOfMachine :
                      /\ callOut.history[i].id = StoredOfMachine[i]["id"]
                      /\ callOut.history[i].machine_id = callIn.work_order.machine_id
    /\ callIn.history_fails
       => /\ callOut.pc # "failed"
          /\ callOut.pc = "invoked"
             => \E i \in DOMAIN callOut.sent : callOut.sent[i].kind = "no_history"

\* the history read failed although two records of the machine are stored,
\* and the agent has been called
C12_Witness ==
    /\ callIn.history_fails
    /\ Len(StoredOfMachine) = 2
    /\ callOut.pc = "invoked"
    /\ callOut.history = <<>>

\* C13 (under SpecGather): when the window query yields nothing or fails,
\* get_available_maintenance_windows(n) returns n generated windows: the
\* i-th starts at 22:00 of the i-th day after today and ends at 06:00 of
\* the day after that, has impact "Low", is available, and no two share an
\* id.  When the query yields items, one window per item is returned and
\* none is generated.
C13_SyntheticWindows ==
    callOut.pc \in {"windows", "context", "invoked"}
    => LET w == callOut.windows
           today == callIn.now.day
       IN  IF callIn.windows_fail \/ callIn.window_items = <<>>
           THEN /\ Len(w) = callIn.days_ahead
                /\ \A i \in DOMAIN w :
                      /\ w[i].start_time = Datetime(today + i, 22 * 60, FALSE)
                      /\ w[i].end_time = Datetime(today + i + 1, 6 * 60, FALSE)
                      /\ w[i].production_impact = "Low"
                      /\ w[i].is_available
                /\ \A i, j \in DOMAIN w : w[i].id = w[j].id => i = j
           ELSE /\ Len(w) = Len(callIn.window_items)
                /\ \A i \in DOMAIN w : w[i].id = callIn.window_items[i]["id"]

\* the read failed although the query would have yielded windows, and three
\* windows were generated
C13_Witness ==
    /\ callOut.pc = "windows"
    /\ callIn.windows_fail
    /\ callIn.window_items # <<>>
    /\ callIn.days_ahead = MaxDaysAhead
    /\ Len(callOut.windows) = MaxDaysAhead
    /\ callIn.now.minute # 0

\* the lines of one kind in the text a call returned
LinesOf(call, kind) == SelectSeq(call.res.value, LAMBDA l : l.kind = kind)

\* the occurrence dates of the records that have the fault type of the work
\* order and a date
DatedRelevant == RelevantDates(RelevantHistory(callIn.work_order, callIn.history))

\* C14 (under SpecContext): on a history with two or more dated records of
\* the work order's fault type, _build_context returns a text whose MTBF
\* line shows the mean of the whole-day gaps between consecutive dates in
\* ascending order, and whose progress line shows (whole days from the
\* latest such date to now) / MTBF x 100, above 100 when it is; both as
\* printed, to no and to one decimal.
C14_MtbfAndProgress ==
    \A k \in DOMAIN callOut :
        Len(DatedRelevant) >= 2
        => /\ callOut[k].res.ok
           /\ LET gaps == Intervals(Sorted(DatedRelevant))
                  last == Sorted(DatedRelevant)[Len(DatedRelevant)]
                  since == DaysBetween(last, callOut[k].at)
              IN  /\ LinesOf(callOut[k], "mtbf")
                       = << Line("mtbf", "",
                                 <<RoundHalfEven(SumSeq(gaps), Len(gaps))>>) >>
                  /\ LinesOf(callOut[k], "progress")
                       = << Line("progress", "",
                                 <<RoundHalfEven(since * 1000 * Len(gaps),
                                                 SumSeq(gaps))>>) >>

\* C15 (under SpecContext): on a history with no or one dated record of the
\* work order's fault type, whatever else it holds, _build_context returns
\* a text, and the text has no MTBF line, no days-since-last line and no
\* progress line.
C15_NoTimingWithoutTwoDates ==
    \A k \in DOMAIN callOut :
        Len(DatedRelevant) <= 1
        => /\ callOut[k].res.ok
           /\ \A i \in DOMAIN callOut[k].res.value :
                  callOut[k].res.value[i].kind
                      \notin {"mtbf", "days_since_last", "progress"}

\* a call on a history with two records of the work order's fault type, of
\* which one has a date, has returned a text
C15_Witness ==
    /\ Len(RelevantHistory(callIn.work_order, callIn.history)) = 2
    /\ Len(DatedRelevant) = 1
    /\ Len(callOut) = 1
    /\ callOut[1].res.ok

\* the records with the fault type of the work order
Relevant == RelevantHistory(callIn.work_order, callIn.history)

\* C16 (under SpecContext): _build_context returns a text that has an
\* average-downtime line and an average-cost line exactly when some record
\* has the work order's fault type; each shows the sum over those records
\* divided by their number (as printed: minutes to no decimal, dollars to
\* two); with no such record nothing is averaged and nothing raised.
C16_AveragesOverRelevant ==
    \A k \in DOMAIN callOut :
        /\ callOut[k].res.ok
        /\ IF Relevant # <<>>
           THEN /\ LinesOf(callOut[k], "average_downtime")
                     = << Line("average_downtime", "",
                               <<RoundHalfEven(
                                   SumSeq([i \in DOMAIN Relevant |-> Relevant[i].downtime]),
                                   Len(Relevant))>>) >>
                /\ LinesOf(callOut[k], "average_cost")
                     = << Line("average_cost", "",
                               <<RoundHalfEven(
                                   100 * SumSeq([i \in DOMAIN Relevant |-> Relevant[i].cost]),
                                   Len(Relevant))>>) >>
           ELSE /\ LinesOf(callOut[k], "average_downtime") = <<>>
                /\ LinesOf(callOut[k], "average_cost") = <<>>

\* C17 (under SpecContext): two calls of _build_context on the same work
\* order, history and windows give the same result, whatever the clock
\* shows during each: the moment the days-since-last are counted to is an
\* argument of the call.
C17_Deterministic ==
    \A j, k \in DOMAIN callOut : callOut[j].res = callOut[k].res

\* the position of the first line of a kind in a text; 0 when it has none
FirstOf(lines, kind) ==
    IF \E i \in DOMAIN lines : lines[i].kind = kind
    THEN CHOOSE i \in DOMAIN lines :
            /\ lines[i].kind = kind
            /\ \A j \in 1..(i - 1) : lines[j].kind # kind
    ELSE 0

StatisticKinds ==
    {"total_events", "similar_fault_type", "occurrences", "average_downtime",
     "average_cost", "mtbf", "days_since_last", "progress", "event"}

\* C18 (under SpecContext): _build_context returns, for every input, a text
\* with the id, machine id, fault type, priority and estimated duration of
\* the work order; with the 'no historical data' marker and no statistics
\* line when the history is empty; with the 'no windows' marker when the
\* window list is empty; and with its sections in the order work order,
\* history, windows, instructions.
C18_ContextContents ==
    \A k \in DOMAIN callOut :
        /\ callOut[k].res.ok
        /\ LET lines == callOut[k].res.value
               wo == callIn.work_order
           IN  /\ LinesOf(callOut[k], "work_order_id") = <<Line("work_order_id", wo.id, <<>>)>>
               /\ LinesOf(callOut[k], "machine_id") = <<Line("machine_id", wo.machine_id, <<>>)>>
               /\ LinesOf(callOut[k], "fault_type") = <<Line("fault_type", wo.fault_type, <<>>)>>
               /\ LinesOf(callOut[k], "priority") = <<Line("priority", wo.priority, <<>>)>>
               /\ LinesOf(callOut[k], "estimated_duration")
                    = <<Line("estimated_duration", "", <<wo.estimated_duration>>)>>
               /\ callIn.history = <<>>
                  => /\ FirstOf(lines, "no_history") > 0
                     /\ \A i \in DOMAIN lines : lines[i].kind \notin StatisticKinds
               /\ callIn.windows = <<>> => FirstOf(lines, "no_windows") > 0
               /\ 0 < FirstOf(lines, "work_order_information")
               /\ FirstOf(lines, "work_order_information") < FirstOf(lines, "historical_data")
               /\ FirstOf(lines, "historical_data") < FirstOf(lines, "available_windows")
               /\ FirstOf(lines, "available_windows") < FirstOf(lines, "analysis_required")
               /\ \A i \in DOMAIN lines :
                      /\ lines[i].kind \in StatisticKinds \cup {"no_history"}
                         => /\ FirstOf(lines, "historical_data") < i
                            /\ i < FirstOf(lines, "available_windows")
                      /\ lines[i].kind \in {"window", "no_windows"}
                         => /\ FirstOf(lines, "available_windows") < i
                            /\ i < FirstOf(lines, "analysis_required")

\* the days of the dated records of the history, and the start moments of
\* the windows that have a start and an end
DatedDays ==
    LET dated == SelectSeq(callIn.history, LAMBDA h : h.occurrence_date.set)
    IN  [i \in DOMAIN dated |-> dated[i].occurrence_date.day]

WindowStarts ==
    LET whole == SelectSeq(callIn.windows,
                           LAMBDA w : w.start_time.set /\ w.end_time.set)
    IN  [i \in DOMAIN whole |-> Minutes(whole[i].start_time)]

\* shown lists, latest first when sign = 1 and soonest first when sign = -1,
\* the at most limit elements of all that come first in that order
ShowsFirst(shown, all, limit, sign) ==
    /\ Len(shown) = Min(limit, Len(all))
    /\ \A i, j \in DOMAIN shown : i < j => sign * shown[i] >= sign * shown[j]
    /\ \A i \in DOMAIN all :
          Cardinality({j \in DOMAIN all : sign * all[j] > sign * all[i]}) < limit
          => \E m \in DOMAIN shown : shown[m] = all[i]

\* C19 (under SpecContext): the text _build_context returns lists the five
\* records with the latest occurrence dates (all of them when there are
\* fewer), latest first, and the ten windows with the earliest starts (all
\* when fewer), earliest first; never more than five records and ten
\* windows.
C19_BoundedListings ==
    \A k \in DOMAIN callOut :
        callOut[k].res.ok
        => LET events == LinesOf(callOut[k], "event")
               lines == LinesOf(callOut[k], "window")
           IN  /\ Len(events) <= ShownRecords
               /\ Len(lines) <= ShownWindows
               /\ ShowsFirst([i \in DOMAIN events |-> events[i].n[1]],
                             DatedDays, ShownRecords, 1)
               /\ ShowsFirst([i \in DOMAIN lines |->
                                 lines[i].n[1] * MinutesPerDay + lines[i].n[2]],
                             WindowStarts, ShownWindows, -1)

\* C20 (under SpecExtract): on a text that holds a serialized object in a
\* block fenced with a json-tagged fence, within any prose, extract_json returns the
\* object as it was serialized (the interior of that block without its
\* surrounding white space), also when the prose has braces of its own.
C20_FencedRoundTrip ==
    (callOut # NotCalled /\ callIn.kind = "fenced")
    => /\ callOut.ok
       /\ callOut.value = callIn.object

\* C21 (under SpecExtract): on a text that holds a serialized object with no
\* fence, within prose that has braces of its own, extract_json returns the
\* substring from the first opening brace to the last closing brace of the
\* text, and that substring is the object as it was serialized.
C21_BareRoundTrip ==
    (callOut # NotCalled /\ callIn.kind = "bare"
        /\ Find(callIn.text, FenceJson, 1) = 0)
    => /\ callOut.ok
       /\ callOut.value = SubSeq(callIn.text, Find(callIn.text, "{", 1),
                                 RFind(callIn.text, "}"))
       /\ callOut.value = callIn.object

\* the text holds a complete block fenced with a json-tagged fence
HasTaggedBlock(text) ==
    \E i \in 1..Len(text) :
        /\ text[i] = FenceJson
        /\ \E j \in (i + 1)..Len(text) : Matches(text[j], Fence)

\* the text holds an opening brace followed later by a closing brace
HasBracePair(text) ==
    \E i \in 1..Len(text) :
        /\ text[i] = "{"
        /\ \E j \in (i + 1)..Len(text) : text[j] = "}"

\* C22 (under SpecExtract): extract_json raises the extraction error exactly
\* when the text holds neither a complete json-tagged fenced block nor an
\* opening brace followed later by a closing brace; in that case it returns
\* nothing and raises no other error.
C22_ExtractionErrorExactly ==
    callOut # NotCalled
    => (callOut = Raised("Exception", "")
        <=> (~HasTaggedBlock(callIn.text) /\ ~HasBracePair(callIn.text)))

\* C23: in every reachable state the work-order store holds at most one
\* record per work-order id, also while status updates of the two pipelines
\* run concurrently on one work order (read, delete under the old status,
\* upsert under the new status).
C23_OneRecordPerId ==
    \A w1 \in workOrders, w2 \in workOrders : w1.id = w2.id => w1 = w2

\* two status updates of different pipelines are under way on one work order:
\* both have read it, one has deleted it
C23_Witness ==
    /\ run[1].pc = "updateDeleted"
    /\ run[2].pc = "updateRead"
    /\ run[1].wo.id = run[2].wo.id
    /\ run[1].newStatus = "Scheduled"
    /\ run[2].newStatus \in {"Ready", "PartsOrdered"}

\* C24 (under SpecUpdate): a status update that completes leaves the work
\* order in the store once, with the new status and every other field as
\* the call read it; one that stops after its delete and before its upsert
\* leaves no record of the work order, and no later call brings it back.
C24_DeleteThenRecreate ==
    /\ callOut.pc = "done"
       => \E item \in workOrders :
            /\ QueryWorkOrder(workOrders, callIn.work_order_id) = {item}
            /\ WorkOrderObject(item) =
                 [callOut.work_order EXCEPT !.status = callIn.status]
    /\ callOut.lost => QueryWorkOrder(workOrders, callIn.work_order_id) = {}
    /\ OtherWorkOrder \in workOrders

\* a work order whose creation time carries an offset was moved to a new
\* status by one call and lost by the next
C24_Witness ==
    /\ callOut.completed
    /\ callOut.lost
    /\ callOut.work_order.created_at.aware
    /\ callOut.pc = "failed"

\* C25 (under SpecSave): each scheduling run whose save succeeds has added
\* exactly one schedule, its own, and no save changes or replaces a stored
\* schedule: a save under an id that a stored schedule has fails and leaves
\* the store as it was.
C25_SchedulesOnlyCreated ==
    /\ Cardinality(schedules) = callOut.succeeded
    /\ callOut.pc \in {"saved", "failed"} => callOut.before \subseteq schedules
    /\ callOut.pc = "saved"
       => /\ schedules = callOut.before \cup {callIn}
          /\ \A x \in callOut.before : x.id # callIn.id
    /\ (callOut.pc \in {"saved", "failed"}
            /\ \E x \in callOut.before : x.id = callIn.id)
       => callOut.pc = "failed" /\ schedules = callOut.before

\* the save of a schedule failed on a stored schedule of the same id and
\* another content, after two runs had saved theirs
C25_Witness ==
    /\ callOut.pc = "failed"
    /\ callOut.succeeded = 2
    /\ \E x \in schedules : x.id = callIn.id /\ x # callIn

\* the work order of this id has a part that is not flagged available
\* (the flags of a work order never change)
NeedsParts(id) ==
    \E w \in InitWorkOrders :
        w.id = id /\ \E i \in DOMAIN w.requiredParts : ~w.requiredParts[i]

\* C26: a parts-ordering run sets the status "Ready" only for a work order
\* with every part flagged available, and then without suppliers, reasoning
\* call, transcript or order; it sets "PartsOrdered" only after it has saved
\* its one order, with order status "Pending", so a work order marked
\* "PartsOrdered" has a saved order.
C26_ReadyOrOrdered ==
    /\ \A p \in Procs :
        /\ run[p].newStatus = "Ready"
           => /\ ~NeedsParts(run[p].wo.id)
              /\ run[p].stage = "Gathering"
              /\ run[p].thread = <<>> /\ run[p].text = ""
              /\ \A o \in partsOrders : o.id # run[p].no
        /\ run[p].newStatus = "PartsOrdered"
           => /\ NeedsParts(run[p].wo.id)
              /\ \E o \in partsOrders :
                    /\ o.id = run[p].no
                    /\ o.work_order_id = run[p].wo.id
    /\ \A o \in partsOrders :
        /\ NeedsParts(o.work_order_id)
        /\ o.order_status = "Pending"
        /\ \A o2 \in partsOrders : o2.id = o.id => o2 = o
    /\ \A w \in workOrders :
        /\ w.status = "PartsOrdered"
           => \E o \in partsOrders : o.work_order_id = w.id
        /\ w.status = "Ready" => ~NeedsParts(w.id)
    /\ \A c \in chatHistories :
        c.purpose = "parts_ordering" => NeedsParts(c.id)

\* one work order was set to "Ready" without an order, the other to
\* "PartsOrdered" with its order saved
C26_Witness ==
    /\ \E w \in workOrders : w.status = "Ready"
    /\ \E w \in workOrders : w.status = "PartsOrdered"
    /\ Cardinality(partsOrders) = 1

\* C27: in every reachable state a work order with status "Scheduled" has a
\* saved schedule that references it, and a run that is updating a status to
\* "Scheduled" has saved a schedule for that work order; a saved schedule is
\* never taken back, also when the status update fails.
C27_ScheduledHasSchedule ==
    /\ [](/\ \A w \in workOrders :
               w.status = "Scheduled"
               => \E x \in schedules : x.work_order_id = w.id
          /\ \A p \in Procs :
               run[p].newStatus = "Scheduled"
               => \E x \in schedules :
                    x.id = run[p].no /\ x.work_order_id = run[p].wo.id)
    /\ [][schedules \subseteq schedules']_vars

\* one work order is "Scheduled" with its schedule saved; the other has a
\* saved schedule too, but its run failed in the status update and it is
\* not "Scheduled"
C27_Witness ==
    /\ \E w \in workOrders : w.status = "Scheduled"
    /\ \E x \in schedules :
         \A w \in workOrders : w.id = x.work_order_id => w.status # "Scheduled"
    /\ \E p \in Procs :
         /\ run[p].pc = "failed" /\ run[p].wf = "schedule"
         /\ run[p].failedAt = "Persisted"
    /\ \A p \in Procs : Finished(run[p])

\* C28: a run gets to the extraction of its response only through the save
\* of its transcript, which, unless the save itself fails, puts the thread
\* with the response of the run in the store; the steps that extract and
\* parse the response, and their failures, leave the transcript store as the
\* save left it.
C28_SavedBeforeParsed ==
    [][\A p \in Procs :
         /\ (run'[p].pc = "saved" /\ run[p].pc # "saved")
            => /\ run[p].pc = "invoked"
               /\ \/ "save" \in run'[p].faults
                  \/ \E c \in ReadChat(chatHistories', ChatKey(run[p])) :
                        /\ c.historyJson = CollectMessages(run[p].thread)
                        /\ HasExchange(c.historyJson, run[p].no)
         /\ (run[p].pc \in {"saved", "extracted"} /\ run'[p] # run[p])
            => /\ run'[p].pc \in {"extracted", "validated", "failed"}
               /\ \A c \in ReadChat(chatHistories, ChatKey(run[p])) :
                     c \in chatHistories'
               /\ run[p].pc = "saved" => run'[p].pc # "validated"]_vars

\* a run has failed on its response, and the store holds the transcript
\* with the exchange of that run
C28_Witness ==
    \E p \in Procs, c \in chatHistories :
        /\ run[p].pc = "failed" /\ run[p].failedAt = "Invoked"
        /\ started = 1
        /\ HasExchange(c.historyJson, 1)

\* C29 (under SpecContext): _build_context returns a text, raising
\* nothing, for the work order and every history list, also when all dated
\* records of the fault type fall on one day and when the dates carry an
\* offset (parsed from strings with a trailing Z); the windows are such
\* that their listing raises nothing.
C29_NeverRaises ==
    \A k \in DOMAIN callOut :
        WindowError(callIn.windows) = "" => callOut[k].res.ok

\* C30: when the restore of the stored transcript has failed part-way, the
\* thread the context is about to be sent on is empty or holds the whole
\* stored transcript, never only the entries restored before the failure.
C30_RestoreAllOrNothing ==
    \A p \in Procs :
        (run[p].pc = "restored" /\ "restore" \in run[p].faults)
        => \/ run[p].thread = <<>>
           \/ run[p].thread = run[p].loaded.msgs

=============================================================================
